---- MODULE Spec2Model ----
(***************************************************************************)
(* TierRanker: the video render route (POST, processAudio, generateFrames, *)
(* generateVideoWithFFmpeg, cleanupTempFiles, loadImageWithCache).         *)
(*                                                                         *)
(* Durations are integers in hundredths of a second (3.33 s is 333), so    *)
(* Math.floor(duration * fps) is (duration * fps) \div 100.                *)
(***************************************************************************)
EXTENDS Integers, Sequences, FiniteSets, TLC

\* ---------------------------------------------------------------- bounds

\* Number of POST calls that may overlap in the process.
NumJobs == 2
\* Largest value of Date.now() (milliseconds since the first request).
MaxClock == 1
\* Longest drag history of a request of SpecFrames.
MaxLog == 2

\* ------------------------------------------------------ program constants

fps == 30

Jobs == 1..NumJobs

\* ------------------------------------------------------------ data model

\* An image reference is a string, kept as the sequence of its pieces: a piece is
\* a prefix the resolver tests for or a run of other characters. The empty string
\* is no image.
NoImage == <<>>

\* A data URI, a staged file of /api/temp-image, a remote URL, a base64 payload
\* without prefix, two paths of files of the host (one with a dot in its name),
\* a path of no file, and a blob: URL.
Data1 == <<"data:", "image/png;base64,", "QUJD">>
Staged1 == <<"/api/temp-image/", "x", ".png">>
Remote1 == <<"https://", "host", "/", "x", ".png">>
Bare1 == <<"QUJD">>
PathPlain == <<"/", "tmp", "/", "x">>
PathDotted == <<"/", "tmp", "/", "x", ".png">>
PathMissing == <<"/", "tmp", "/", "QUJD", ".png">>
Blob1 == <<"blob:", "host", "/", "x">>

\* The pieces made of characters of [A-Za-z0-9+/=] only.
Base64Pieces == {"QUJD", "/", "tmp", "x", "host"}

\* The files of the host that fs.existsSync finds.
HostFiles == {PathPlain, PathDotted}

\* imageSource.startsWith(prefix)
startsWith(imageSource, prefix) == Len(imageSource) > 0 /\ imageSource[1] = prefix

\* /^[A-Za-z0-9+/=]+$/.test(imageSource)
isBase64Text(imageSource) ==
    Len(imageSource) > 0 /\ \A n \in DOMAIN imageSource : imageSource[n] \in Base64Pieces

\* fs.existsSync(imageSource)
existsSync(imageSource) == imageSource \in HostFiles

\* A resolver that looks for a file of the name before it tries base64.
imageRouteFileFirst(imageSource) ==
    IF startsWith(imageSource, "data:") THEN "inline"
    ELSE IF startsWith(imageSource, "/api/temp-image/") THEN "staged"
    ELSE IF startsWith(imageSource, "http://") \/ startsWith(imageSource, "https://")
    THEN "remote"
    ELSE IF existsSync(imageSource) THEN "file"
    ELSE IF isBase64Text(imageSource) THEN "base64"
    ELSE "unsupported"

\* The branch of loadImageWithCache that loads imageSource on a cache miss:
\* "unsupported" is throw new Error(`Unsupported image source: ...`).
imageRoute(imageSource) ==
    IF startsWith(imageSource, "data:") THEN "inline"
    ELSE IF startsWith(imageSource, "/api/temp-image/") THEN "staged"
    ELSE IF startsWith(imageSource, "http://") \/ startsWith(imageSource, "https://")
    THEN "remote"
    ELSE IF isBase64Text(imageSource) THEN "base64"
    ELSE IF existsSync(imageSource) THEN "file"
    ELSE "unsupported"

Item(id, image) == [id |-> id, image |-> image]

Tier(id, name, items) == [id |-> id, name |-> name, items |-> items]

Entry(itemId, targetTierId, timestamp) ==
    [itemId |-> itemId, targetTierId |-> targetTierId, timestamp |-> timestamp]

\* rankingData.dragHistory is optional: defined = FALSE is the missing field.
NoHistory == [defined |-> FALSE, entries |-> <<>>]

History(entries) == [defined |-> TRUE, entries |-> entries]

\* An AudioSection: audioBlob is TRUE when the section carries a base64 string;
\* duration is the declared duration (0: missing or zero); text is its length.
Section(type, audioBlob, duration, isTTS, text) ==
    [type |-> type, audioBlob |-> audioBlob, duration |-> duration,
     isTTS |-> isTTS, text |-> text]

Max(a, b) == IF a >= b THEN a ELSE b

\* Array.prototype.findIndex, 1-based; 0 when nothing matches (-1 in the code).
tierIndexById(tiers, id) ==
    LET hits == {n \in 1..Len(tiers) : tiers[n].id = id}
    IN  IF hits = {} THEN 0 ELSE CHOOSE n \in hits : \A m \in hits : n <= m

tierIndexByName(tiers, name) ==
    LET hits == {n \in 1..Len(tiers) : tiers[n].name = name}
    IN  IF hits = {} THEN 0 ELSE CHOOSE n \in hits : \A m \in hits : n <= m

itemIndexById(items, id) ==
    LET hits == {n \in 1..Len(items) : items[n].id = id}
    IN  IF hits = {} THEN 0 ELSE CHOOSE n \in hits : \A m \in hits : n <= m

sectionIndexByType(sections, type) ==
    LET hits == {n \in 1..Len(sections) : sections[n].type = type}
    IN  IF hits = {} THEN 0 ELSE CHOOSE n \in hits : \A m \in hits : n <= m

\* ------------------------------------------------- generateFrames: planning

\* Math.round(duration * fps)
FramesRounded(duration) == (duration * fps + 50) \div 100

\* Math.floor(duration * fps)
Frames(duration) == (duration * fps) \div 100

\* The declared duration preferred to the measured one.
sectionDurationDeclaredFirst(section, sectionDurations, index) ==
    IF section.duration > 0 THEN section.duration
    ELSE IF index <= Len(sectionDurations) /\ sectionDurations[index] > 0
         THEN sectionDurations[index]
         ELSE 384

\* The duration generateFrames uses for section `index` (1-based): the one
\* processAudio measured when it is positive, else the declared one, else the
\* text estimate, else 3.84 s.
sectionDuration(section, sectionDurations, index) ==
    LET measured == IF index <= Len(sectionDurations)
                    THEN sectionDurations[index] ELSE 0
    IN  IF measured <= 0
        THEN IF section.duration > 0 THEN section.duration
             ELSE IF section.isTTS /\ section.text > 0
                  THEN Max(200, section.text * 25)
                  ELSE 384
        ELSE measured

audioSectionsWithDuration(audioSections, sectionDurations) ==
    [index \in 1..Len(audioSections) |->
        [audioSections[index] EXCEPT
            !.duration = sectionDuration(audioSections[index], sectionDurations, index)]]

\* A phase of 0.04 s (one frame) whatever its section says.
phaseDurationOneFrame(sections, type) == 4

\* introSection?.duration || 3 and conclusionSection?.duration || 3
phaseDuration(sections, type) ==
    LET n == sectionIndexByType(sections, type)
    IN  IF n = 0 \/ sections[n].duration = 0 THEN 300 ELSE sections[n].duration

\* [...dragHistory].sort((a, b) => a.timestamp - b.timestamp): the sort is
\* stable, an entry stays behind every earlier entry it does not precede.
\* An unstable sort: an entry moves in front of the earlier entries of its timestamp.
RECURSIVE insertBeforeEqual(_, _)
insertBeforeEqual(sorted, e) ==
    IF sorted = <<>> THEN <<e>>
    ELSE LET last == sorted[Len(sorted)]
         IN  IF last.timestamp - e.timestamp < 0
             THEN Append(sorted, e)
             ELSE Append(insertBeforeEqual(SubSeq(sorted, 1, Len(sorted) - 1), e), last)

RECURSIVE insertByTimestamp(_, _)
insertByTimestamp(sorted, e) ==
    IF sorted = <<>> THEN <<e>>
    ELSE LET last == sorted[Len(sorted)]
         IN  IF last.timestamp - e.timestamp <= 0
             THEN Append(sorted, e)
             ELSE Append(insertByTimestamp(SubSeq(sorted, 1, Len(sorted) - 1), e), last)

RECURSIVE sortByTimestamp(_)
sortByTimestamp(entries) ==
    IF entries = <<>> THEN <<>>
    ELSE insertByTimestamp(sortByTimestamp(SubSeq(entries, 1, Len(entries) - 1)),
                           entries[Len(entries)])

\* The object one history entry maps to, <<>> standing for null.
resolveEntry(tiers, historyEntry) ==
    LET t == tierIndexById(tiers, historyEntry.targetTierId)
        i == IF t = 0 THEN 0 ELSE itemIndexById(tiers[t].items, historyEntry.itemId)
    IN  IF t # 0 /\ i # 0
        THEN <<[id |-> tiers[t].items[i].id, image |-> tiers[t].items[i].image,
                tierName |-> tiers[t].name]>>
        ELSE <<>>

RECURSIVE resolveHistory(_, _)
resolveHistory(tiers, sortedHistory) ==
    IF sortedHistory = <<>> THEN <<>>
    ELSE resolveEntry(tiers, Head(sortedHistory)) \o resolveHistory(tiers, Tail(sortedHistory))

UnrankedName == "unranked"

RECURSIVE flatTiers(_)
flatTiers(tiers) ==
    IF tiers = <<>> THEN <<>>
    ELSE [n \in 1..Len(Head(tiers).items) |->
             [id |-> Head(tiers).items[n].id, image |-> Head(tiers).items[n].image,
              tierName |-> Head(tiers).name]]
         \o flatTiers(Tail(tiers))

\* The reveal order generateFrames animates.
allItemsOf(rankingData) ==
    IF rankingData.dragHistory.defined /\ Len(rankingData.dragHistory.entries) > 0
    THEN resolveHistory(rankingData.tiers, sortByTimestamp(rankingData.dragHistory.entries))
    ELSE flatTiers(rankingData.tiers)
         \o [n \in 1..Len(rankingData.unrankedItems) |->
                [id |-> rankingData.unrankedItems[n].id,
                 image |-> rankingData.unrankedItems[n].image,
                 tierName |-> UnrankedName]]

\* Every section taken as an item section.
itemSectionsUnfiltered(sections) == sections

\* audioSectionsWithDuration.filter(s => s.type === 'item')
itemSectionsOf(sections) == SelectSeq(sections, LAMBDA s : s.type = "item")

\* The default of the intro and conclusion phases (3 s) used for an unmatched item.
itemDurationDefault3(itemSections, itemIndex) ==
    IF itemIndex + 1 <= Len(itemSections) /\ itemSections[itemIndex + 1].duration # 0
    THEN itemSections[itemIndex + 1].duration
    ELSE 300

\* correspondingSection?.duration || 2, itemIndex counted from 0
itemDurationOf(itemSections, itemIndex) ==
    IF itemIndex + 1 <= Len(itemSections) /\ itemSections[itemIndex + 1].duration # 0
    THEN itemSections[itemIndex + 1].duration
    ELSE 200

\* ------------------------------------------------------------------ state

VARIABLES
    now,              \* Date.now()
    fs,               \* the directories that exist under the temp base, each with its files
    imageCache,       \* the module-level Map imageCache: source -> decoded Image
    fontInitialized,  \* the module-level flag of ensureDefaultFontRegistered
    job               \* per POST call: its position and its local variables

vars == <<now, fs, imageCache, fontInitialized, job>>

File(kind, n) == [kind |-> kind, n |-> n]

NoFile == File("none", 0)

NoDir == 0 - 1

NoResponse == [status |-> 0, contentType |-> "", body |-> ""]

\* new NextResponse(new Uint8Array(videoBuffer), {headers: {'Content-Type': 'video/mp4', ...}})
videoResponse == [status |-> 200, contentType |-> "video/mp4", body |-> "videoBuffer"]

\* NextResponse.json({ error: ... }, { status: 500 })
errorResponse == [status |-> 500, contentType |-> "application/json", body |-> "error"]

\* NextResponse.json({ error: ... }, { status: 413 })
tooLargeResponse == [status |-> 413, contentType |-> "application/json", body |-> "error"]

\* A coordinate frame / itemFrames leaves fractional: the number n / d. The doubles of
\* the code agree with it on every comparison of the drawing code (frame and itemFrames are small
\* integers) and at the centre hold, where the code assigns constants.
Q(n, d) == [n |-> n, d |-> d]

Whole(v) == Q(v, 1)

\* No moving item drawn: drawMovingItem returns before drawing.
NotDrawn ==
    [drawn |-> FALSE, centerStage |-> FALSE, currentX |-> Whole(0), currentY |-> Whole(0),
     currentSize |-> Whole(0), targetX |-> 0, targetY |-> 0]

\* The items of a frame before any item was drawn.
NoScene == [placed |-> <<>>, moving |-> NotDrawn]

NoRequest ==
    [rankingData |-> [tiers |-> <<>>, unrankedItems |-> <<>>, dragHistory |-> NoHistory],
     audioSections |-> <<>>]

\* A POST call that has just been entered: it awaits ensureDefaultFontRegistered.
\* failed (which awaited operation failed), probed (what probeDuration returned,
\* section by section), execs (the execAsync calls made, each with how the tool
\* exited), decodes (how often the call has decoded each image source) and phaseLog
\* (the phases generateFrames has finished, each with the number of frames it saved)
\* record history; concatList is what audio_list.txt holds and track the clips
\* that make up the file at audioPath; loadErrors are the errors the image loads of
\* the last frame threw and defaultStyle the items that frame drew without image.
NewJob ==
    [pc |-> "ensureFont", request |-> NoRequest, tempDir |-> NoDir,
     i |-> 0, audioFiles |-> <<>>, sectionDurations |-> <<>>, audioPath |-> NoFile,
     probed |-> <<>>, execs |-> <<>>, decodes |-> <<>>,
     concatList |-> <<>>, track |-> <<>>, loadErrors |-> {}, defaultStyle |-> {},
     sections |-> <<>>, allItems |-> <<>>,
     frameIndex |-> 0, k |-> 0, itemIndex |-> 0, frame |-> 0, canvas |-> {},
     scene |-> NoScene,
     frameCount |-> -1, videoPath |-> NoFile, videoBuffer |-> FALSE,
     response |-> NoResponse, failed |-> "", phaseLog |-> <<>>]

Init ==
    /\ now = 0
    /\ fs = <<>>
    /\ imageCache = <<>>
    /\ fontInitialized = FALSE
    /\ job = [j \in Jobs |-> NewJob]

\* ------------------------------------------------------------- file system

\* fs.promises.mkdir(tempDir, { recursive: true }): an existing directory is kept.
mkdir(files, dir) ==
    IF dir \in DOMAIN files THEN files ELSE files @@ (dir :> {})

\* A file written into a directory that exists.
writeFile(files, dir, file) == [files EXCEPT ![dir] = @ \cup {file}]

unlink(files, dir, file) ==
    IF dir \in DOMAIN files THEN [files EXCEPT ![dir] = @ \ {file}] ELSE files

\* fs.promises.rm(tempDir, { recursive: true, force: true })
rm(files, dir) == [d \in DOMAIN files \ {dir} |-> files[d]]

\* cleanupTempFiles: a failure of rm is logged and swallowed.
cleanupTempFiles(files, dir, rmOk) == IF rmOk THEN rm(files, dir) ELSE files

\* path.join(tempBase, `video_${Date.now()}`)
tempDirName(clock) == clock

\* --------------------------------------------------------------- the cache

\* A catch or return path that forgets imageCache.clear().
cacheKept(cache) == cache

\* imageCache.clear()
cacheClear(cache) == <<>>

\* The sources of S that a branch of loadImageWithCache tries to load.
loadable(S) == {s \in S : imageRoute(s) # "unsupported"}

\* A cache that also keeps an entry for a source whose load threw.
cacheAfterLoadsErrorsKept(cache, sources, decodable, j) ==
    cache @@ [s \in sources \ DOMAIN cache |->
                 [src |-> s, decodedBy |-> j, route |-> imageRoute(s)]]

\* loadImageWithCache for every source of `sources`: a cached source returns the
\* cached Image, one in `decodable` is decoded and stored, any other throws and
\* stores nothing. An Image is identified by its source, the call that decoded it
\* and the branch that loaded it.
cacheAfterLoads(cache, sources, decodable, j) ==
    LET fresh == (sources \ DOMAIN cache) \cap decodable
    IN  cache @@ [s \in fresh |-> [src |-> s, decodedBy |-> j, route |-> imageRoute(s)]]

\* The errors loadImageWithCache throws for `sources`: the source has no supported
\* form, or its branch failed to read, fetch or decode it.
loadErrorsOf(cache, sources, decodable) ==
    {[src |-> s, error |-> IF imageRoute(s) = "unsupported" THEN "Unsupported image source"
                                                            ELSE "load failed"] :
        s \in (sources \ DOMAIN cache) \ decodable}

\* The items of `items` that drawItemInTier or drawMovingItemContent draws in the
\* default style: those without image and those whose image is not served.
drawnInDefaultStyle(items, cache) ==
    {it.id : it \in {i \in items : i.image = NoImage \/ i.image \notin DOMAIN cache}}

\* How often each source has been decoded (loadImage resolved) once the loads of
\* cacheAfterLoads are made: only a source that is not cached reaches loadImage.
decodesAfterLoads(decodes, cache, sources, decodable) ==
    LET fresh == (sources \ DOMAIN cache) \cap decodable
    IN  IF fresh = {} THEN decodes
        ELSE [s \in DOMAIN decodes \cup fresh |->
                 (IF s \in DOMAIN decodes THEN decodes[s] ELSE 0)
                 + (IF s \in fresh THEN 1 ELSE 0)]

\* The Images the frame draws: what loadImageWithCache returned without throwing.
imagesDrawn(cache, sources, decodable, j) ==
    LET after == cacheAfterLoads(cache, sources, decodable, j)
    IN  {after[s] : s \in sources \cap DOMAIN after}

\* --------------------------------------------------------------- POST: catch

\* POST returns: its local variables are gone; what stays is the response, the
\* name of the directory it made and which awaited operation failed.
Returned(jr, response, stage) ==
    [NewJob EXCEPT !.pc = "done", !.response = response, !.failed = stage,
                   !.tempDir = jr.tempDir, !.execs = jr.execs]

\* One execAsync call of the tool for section i, with its exit: "zero", "nonzero", or
\* "none" for a tool that has not exited.
Exec(tool, i, exit) == [tool |-> tool, i |-> i, exit |-> exit]

\* await execAsync(...) rejects (the tool exited non-zero): the rejection reaches
\* catch (error) of POST.
ExecRejected(j, tool, stage) ==
    /\ imageCache' = cacheClear(imageCache)
    /\ job' = [job EXCEPT ![j] = Returned([job[j] EXCEPT !.execs =
                                    Append(@, Exec(tool, job[j].i, "nonzero"))],
                                  errorResponse, stage)]

\* catch (error): imageCache.clear() and the 500 response; the working directory
\* is left as it is.
Catch(j, stage) ==
    /\ imageCache' = cacheClear(imageCache)
    /\ job' = [job EXCEPT ![j] = Returned(job[j], errorResponse, stage)]

\* ----------------------------------------------------------- POST: first steps

\* await ensureDefaultFontRegistered() never throws; then the content-length guard.
EnsureDefaultFontRegistered(j) ==
    /\ job[j].pc = "ensureFont"
    /\ \E registered \in BOOLEAN, tooLarge \in BOOLEAN :
          /\ fontInitialized' = (fontInitialized \/ registered)
          /\ job' = IF tooLarge
                    THEN [job EXCEPT ![j] = Returned(job[j], tooLargeResponse, "")]
                    ELSE [job EXCEPT ![j].pc = "json"]
    /\ UNCHANGED <<now, fs, imageCache>>

\* await request.json(); then tempDir is named after Date.now() and mkdir is called.
RequestJson(j, Requests) ==
    /\ job[j].pc = "json"
    /\ \/ \E r \in Requests :
             /\ job' = [job EXCEPT ![j].pc = "mkdir", ![j].request = r,
                                   ![j].tempDir = tempDirName(now)]
             /\ UNCHANGED imageCache
       \/ Catch(j, "json")
    /\ UNCHANGED <<now, fs, fontInitialized>>

\* ---------------------------------------------------------------- processAudio

\* generateFrames is entered with what processAudio returned: the sections get
\* their durations and the intro loop starts.
enterGenerateFrames(jr, finalAudioPath) ==
    [jr EXCEPT !.pc = "intro", !.audioPath = finalAudioPath,
               !.sections = audioSectionsWithDuration(jr.request.audioSections,
                                                      jr.sectionDurations),
               !.frameIndex = 0, !.k = 0]

\* processAudio that returns the last clip without concatenating.
afterSectionNoConcat(jr) ==
    LET sections == jr.request.audioSections
    IN  IF jr.i < Len(sections)
        THEN [jr EXCEPT !.pc = IF sections[jr.i + 1].audioBlob THEN "writeTemp" ELSE "silence"]
        ELSE IF Len(jr.audioFiles) >= 1
             THEN enterGenerateFrames(jr, jr.audioFiles[1])
             ELSE [jr EXCEPT !.pc = "writeList"]

\* Where processAudio goes once sections 0..i-1 are done: the next section's first
\* await, or the single clip returned as the track, or the concat list.
afterSection(jr) ==
    LET sections == jr.request.audioSections
    IN  IF jr.i < Len(sections)
        THEN [jr EXCEPT !.pc = IF sections[jr.i + 1].audioBlob THEN "writeTemp" ELSE "silence"]
        ELSE IF Len(jr.audioFiles) = 1
             THEN enterGenerateFrames([jr EXCEPT !.track = <<jr.audioFiles[1]>>],
                                      jr.audioFiles[1])
             ELSE [jr EXCEPT !.pc = "writeList"]

\* await fs.promises.mkdir(tempDir, { recursive: true }); processAudio starts.
Mkdir(j) ==
    /\ job[j].pc = "mkdir"
    /\ \/ /\ fs' = mkdir(fs, job[j].tempDir)
          /\ job' = [job EXCEPT ![j] = afterSection([job[j] EXCEPT !.i = 0])]
          /\ UNCHANGED imageCache
       \/ /\ Catch(j, "mkdir")
          /\ UNCHANGED fs
    /\ UNCHANGED <<now, fontInitialized>>

\* await fs.promises.writeFile(tempAudioPath, audioBuffer)
WriteTempAudio(j) ==
    /\ job[j].pc = "writeTemp"
    /\ \/ /\ job[j].tempDir \in DOMAIN fs
          /\ fs' = writeFile(fs, job[j].tempDir, File("temp_audio", job[j].i))
          /\ job' = [job EXCEPT ![j].pc = "transcode"]
          /\ UNCHANGED imageCache
       \/ /\ Catch(j, "audio")
          /\ UNCHANGED fs
    /\ UNCHANGED <<now, fontInitialized>>

\* A transcode that is called again after a non-zero exit.
TranscodeRetried(j) ==
    /\ job[j].pc = "transcode"
    /\ \/ /\ job[j].tempDir \in DOMAIN fs
          /\ File("temp_audio", job[j].i) \in fs[job[j].tempDir]
          /\ fs' = writeFile(fs, job[j].tempDir, File("audio_section", job[j].i))
          /\ job' = [job EXCEPT ![j].pc = "unlink",
                                ![j].execs = Append(@, Exec("transcode", job[j].i, "zero"))]
          /\ UNCHANGED imageCache
       \/ /\ Len(job[j].execs) < 2 * Len(job[j].request.audioSections)
          /\ job' = [job EXCEPT ![j].execs = Append(@, Exec("transcode", job[j].i, "nonzero"))]
          /\ UNCHANGED <<fs, imageCache>>
    /\ UNCHANGED <<now, fontInitialized>>

\* await execAsync(`${FFMPEG_PATH} -i tempAudioPath -ar 44100 -ac 2 sectionPath`)
Transcode(j) ==
    /\ job[j].pc = "transcode"
    /\ \/ /\ job[j].tempDir \in DOMAIN fs
          /\ File("temp_audio", job[j].i) \in fs[job[j].tempDir]
          /\ fs' = writeFile(fs, job[j].tempDir, File("audio_section", job[j].i))
          /\ job' = [job EXCEPT ![j].pc = "unlink",
                                ![j].execs = Append(@, Exec("transcode", job[j].i, "zero"))]
          /\ UNCHANGED imageCache
       \/ /\ ExecRejected(j, "transcode", "audio")
          /\ UNCHANGED fs
    /\ UNCHANGED <<now, fontInitialized>>

\* await fs.promises.unlink(tempAudioPath).catch(() => {})
Unlink(j) ==
    /\ job[j].pc = "unlink"
    /\ fs' = unlink(fs, job[j].tempDir, File("temp_audio", job[j].i))
    /\ job' = [job EXCEPT ![j].pc = "probe"]
    /\ UNCHANGED <<now, imageCache, fontInitialized>>

\* probeDuration: null when ffprobe throws or prints no number.
probeDuration(out) ==
    IF out.kind = "number" THEN [isNull |-> FALSE, value |-> out.value]
    ELSE [isNull |-> TRUE, value |-> 0]

\* A fallback that ignores the declared duration.
probedSectionDurationFixed(d, section) ==
    IF ~d.isNull /\ d.value > 0 THEN d.value ELSE 300

\* d && d > 0 ? d : (section.duration || 3)
probedSectionDuration(d, section) ==
    IF ~d.isNull /\ d.value > 0 THEN d.value
    ELSE IF section.duration # 0 THEN section.duration ELSE 300

\* const d = await probeDuration(sectionPath); sectionDurations[i] = ...
ProbeDuration(j, Probes) ==
    /\ job[j].pc = "probe"
    /\ \E out \in Probes :
          LET section == job[j].request.audioSections[job[j].i + 1]
              d == probedSectionDuration(probeDuration(out), section)
          IN  job' = [job EXCEPT ![j] = afterSection(
                        [job[j] EXCEPT !.sectionDurations = Append(@, d),
                                       !.probed = Append(@, [section |-> job[j].i,
                                                             d |-> probeDuration(out)]),
                                       !.execs = Append(@, Exec("probe", job[j].i,
                                                   IF out.kind = "throws" THEN "nonzero"
                                                                          ELSE "zero")),
                                       !.audioFiles = Append(@, File("audio_section", job[j].i)),
                                       !.i = @ + 1])]
    /\ UNCHANGED <<now, fs, imageCache, fontInitialized>>

\* The length of the silent clip of a section without audio.
silenceDuration(section) ==
    IF section.isTTS /\ section.text > 0
    THEN Max(200, section.text * 25)
    ELSE IF section.duration # 0 THEN section.duration ELSE 300

\* await execAsync(`${FFMPEG_PATH} -f lavfi -i anullsrc=... -t ${duration} sectionPath`)
Silence(j) ==
    /\ job[j].pc = "silence"
    /\ \/ /\ job[j].tempDir \in DOMAIN fs
          /\ fs' = writeFile(fs, job[j].tempDir, File("audio_section", job[j].i))
          /\ LET section == job[j].request.audioSections[job[j].i + 1]
             IN  job' = [job EXCEPT ![j] = afterSection(
                           [job[j] EXCEPT !.sectionDurations = Append(@, silenceDuration(section)),
                                          !.execs = Append(@, Exec("silence", job[j].i, "zero")),
                                          !.audioFiles = Append(@, File("audio_section", job[j].i)),
                                          !.i = @ + 1])]
          /\ UNCHANGED imageCache
       \/ /\ ExecRejected(j, "silence", "audio")
          /\ UNCHANGED fs
    /\ UNCHANGED <<now, fontInitialized>>

\* A concat list that names the clips last to first.
RECURSIVE concatListReversed(_)
concatListReversed(audioFiles) ==
    IF audioFiles = <<>> THEN <<>>
    ELSE Append(concatListReversed(Tail(audioFiles)), Head(audioFiles))

\* audioFiles.map(file => `file '${file}'`).join('\n'): one line per clip, in the
\* order of audioFiles.
concatListOf(audioFiles) == [n \in 1..Len(audioFiles) |-> audioFiles[n]]

\* await fs.promises.writeFile(concatListPath, concatList)
WriteConcatList(j) ==
    /\ job[j].pc = "writeList"
    /\ \/ /\ job[j].tempDir \in DOMAIN fs
          /\ fs' = writeFile(fs, job[j].tempDir, File("audio_list", 0))
          /\ job' = [job EXCEPT ![j].pc = "concat",
                                ![j].concatList = concatListOf(job[j].audioFiles)]
          /\ UNCHANGED imageCache
       \/ /\ Catch(j, "audio")
          /\ UNCHANGED fs
    /\ UNCHANGED <<now, fontInitialized>>

\* await execAsync(`${FFMPEG_PATH} -f concat -safe 0 -i concatListPath -c copy finalAudioPath`);
\* processAudio returns and generateFrames starts.
Concat(j) ==
    /\ job[j].pc = "concat"
    /\ \/ /\ job[j].tempDir \in DOMAIN fs
          /\ \A n \in 1..Len(job[j].audioFiles) : job[j].audioFiles[n] \in fs[job[j].tempDir]
          /\ fs' = writeFile(fs, job[j].tempDir, File("final_audio", 0))
          /\ job' = [job EXCEPT ![j] = enterGenerateFrames(
                        [job[j] EXCEPT !.execs = Append(@, Exec("concat", job[j].i, "zero")),
                                       !.track = job[j].concatList],
                        File("final_audio", 0))]
          /\ UNCHANGED imageCache
       \/ /\ ExecRejected(j, "concat", "audio")
          /\ UNCHANGED fs
    /\ UNCHANGED <<now, fontInitialized>>

\* -------------------------------------------------------------- generateFrames

\* Math.floor(introDuration * fps)
introFramesOf(jr) == Frames(phaseDuration(jr.sections, "intro"))

\* Math.floor(conclusionDuration * fps)
conclusionFramesOf(jr) == Frames(phaseDuration(jr.sections, "conclusion"))

\* itemDuration of the sub-phase jr.itemIndex
itemDurationOfJob(jr) == itemDurationOf(itemSectionsOf(jr.sections), jr.itemIndex)

\* Math.floor(itemDuration * fps) of the sub-phase jr.itemIndex
itemFramesOf(jr) == Frames(itemDurationOfJob(jr))

\* The image sources one reveal frame asks loadImageWithCache for: the placed
\* items allItems[0..itemIndex-1] and the moving item allItems[itemIndex], each
\* only when a tier of its tierName exists.
itemFrameSources(rankingData, allItems, itemIndex) ==
    {allItems[n].image : n \in {m \in 1..(itemIndex + 1) :
        /\ tierIndexByName(rankingData.tiers, allItems[m].tierName) # 0
        /\ allItems[m].image # NoImage}}

\* The items one reveal frame draws: the placed ones and the moving one.
itemFrameItems(rankingData, allItems, itemIndex) ==
    {[id |-> allItems[n].id, image |-> allItems[n].image] :
        n \in {m \in 1..(itemIndex + 1) :
                 tierIndexByName(rankingData.tiers, allItems[m].tierName) # 0}}

\* The items drawCompleteTierTable draws.
tableItems(rankingData) ==
    UNION {{rankingData.tiers[t].items[n] : n \in 1..Len(rankingData.tiers[t].items)} :
              t \in 1..Len(rankingData.tiers)}

\* drawCompleteTierTable draws every item of every tier.
tableSources(rankingData) ==
    UNION {{rankingData.tiers[t].items[n].image : n \in {m \in 1..Len(rankingData.tiers[t].items) :
               rankingData.tiers[t].items[m].image # NoImage}} : t \in 1..Len(rankingData.tiers)}

\* ------------------------------------------------ generateFrames: geometry

\* A threshold of 4 s that includes 4 s itself.
needsCenterStageFrom4(itemDuration) == itemDuration >= 400

\* const needsCenterStage = itemDuration > 4
needsCenterStage(itemDuration) == itemDuration > 400

\* tier?.items.findIndex(i => i.id === item.id) || 0, counted from 0; the -1 of an
\* item the tier does not hold is truthy and stays -1.
targetItemIndexOf(tiers, item) ==
    LET t == tierIndexByName(tiers, item.tierName)
    IN  IF t = 0 THEN 0 ELSE itemIndexById(tiers[t].items, item.id) - 1

\* tier && tier.items.length > 1 && targetItemIndex < tier.items.length - 1
needsPositionReplacement(tiers, item) ==
    LET t == tierIndexByName(tiers, item.tierName)
    IN  /\ t # 0
        /\ Len(tiers[t].items) > 1
        /\ targetItemIndexOf(tiers, item) < Len(tiers[t].items) - 1

\* The place of allItems[i] in placedItemsByTier.get(tierName), counted from 0.
indexInTierOf(allItems, i) ==
    Cardinality({m \in 1..(i - 1) : allItems[m].tierName = allItems[i].tierName})

\* The cell drawItemInTier is given for the placed item allItems[i] in frame `frame`
\* of the sub-phase of allItems[itemIndex + 1]: tierIndex is the row
\* (placedTierIndex), pushed is the squeeze branch,
\* shaken says that pushProgress < 1 and the shake term was added to x and y.
placedItemCell(tiers, allItems, itemIndex, i, frame, itemFrames) ==
    LET item == allItems[itemIndex + 1]
        placedItem == allItems[i]
        placedTierIndex == tierIndexByName(tiers, placedItem.tierName) - 1
        indexInTier == indexInTierOf(allItems, i)
        pushed == /\ placedItem.tierName = item.tierName
                  /\ indexInTier >= targetItemIndexOf(tiers, item)
                  /\ needsPositionReplacement(tiers, item)
        y == 150 + placedTierIndex * (120 + 20) + 10
    IN  IF pushed
        THEN [id |-> placedItem.id, tierName |-> placedItem.tierName,
              tierIndex |-> placedTierIndex, indexInTier |-> indexInTier, pushed |-> TRUE,
              x |-> Q((290 + indexInTier * 110) * 2 * itemFrames
                      + 110 * (IF 3 * frame >= 2 * itemFrames THEN 2 * itemFrames ELSE 3 * frame),
                      2 * itemFrames),
              y |-> Whole(y), shaken |-> 3 * frame < 2 * itemFrames]
        ELSE [id |-> placedItem.id, tierName |-> placedItem.tierName,
              tierIndex |-> placedTierIndex, indexInTier |-> indexInTier, pushed |-> FALSE,
              x |-> Whole(290 + indexInTier * 110), y |-> Whole(y), shaken |-> FALSE]

\* The placed items one reveal frame draws, in allItems order: those whose tier
\* name is the name of a tier.
placedItemsDrawn(tiers, allItems, itemIndex, frame, itemFrames) ==
    LET drawn == SelectSeq([i \in 1..itemIndex |-> i],
                           LAMBDA i : tierIndexByName(tiers, allItems[i].tierName) # 0)
    IN  [n \in 1..Len(drawn) |->
            placedItemCell(tiers, allItems, itemIndex, drawn[n], frame, itemFrames)]

\* drawMovingItem: currentX, currentY are the top left corner of a square of 100.
movingItemDirect(tiers, item, frame, itemFrames) ==
    LET t == tierIndexByName(tiers, item.tierName)
        targetY == 150 + (t - 1) * (120 + 20) + 10
        targetX == 290 + (itemIndexById(tiers[t].items, item.id) - 1) * 110
    IN  IF t = 0 THEN NotDrawn
        ELSE [drawn |-> TRUE, centerStage |-> FALSE,
              currentX |-> Q(960 * itemFrames + (targetX - 960) * frame, itemFrames),
              currentY |-> Q(1000 * itemFrames + (targetY - 1000) * frame, itemFrames),
              currentSize |-> Whole(100), targetX |-> targetX, targetY |-> targetY]

\* A centre hold that ends at 60% of the sub-phase.
movingItemShortHold(tiers, item, frame, itemFrames) ==
    LET t == tierIndexByName(tiers, item.tierName)
        targetY == 150 + (t - 1) * (120 + 20) + 10
        targetX == 290 + (itemIndexById(tiers[t].items, item.id) - 1) * 110
    IN  IF t = 0 THEN NotDrawn
        ELSE IF 5 * frame <= itemFrames
        THEN [drawn |-> TRUE, centerStage |-> TRUE, currentX |-> Whole(960),
              currentY |-> Q(1000 * itemFrames + (400 - 1000) * 5 * frame, itemFrames),
              currentSize |-> Q(100 * itemFrames + (150 - 100) * 5 * frame, itemFrames),
              targetX |-> targetX, targetY |-> targetY]
        ELSE IF 5 * frame <= 3 * itemFrames
        THEN [drawn |-> TRUE, centerStage |-> TRUE, currentX |-> Whole(960),
              currentY |-> Whole(400), currentSize |-> Whole(150),
              targetX |-> targetX, targetY |-> targetY]
        ELSE [drawn |-> TRUE, centerStage |-> TRUE,
              currentX |-> Q(960 * 2 * itemFrames + (targetX - 960) * (5 * frame - 3 * itemFrames),
                             2 * itemFrames),
              currentY |-> Q(400 * 2 * itemFrames + (targetY - 400) * (5 * frame - 3 * itemFrames),
                             2 * itemFrames),
              currentSize |-> Q(150 * 2 * itemFrames + (100 - 150) * (5 * frame - 3 * itemFrames),
                                2 * itemFrames),
              targetX |-> targetX, targetY |-> targetY]

\* drawMovingItemWithCenterStage: currentX, currentY are the centre of a square of
\* currentSize. progress <= 0.2 moves to the centre, progress <= 0.2 + 0.6 holds
\* there, the rest moves to the target.
movingItemWithCenterStage(tiers, item, frame, itemFrames) ==
    LET t == tierIndexByName(tiers, item.tierName)
        targetY == 150 + (t - 1) * (120 + 20) + 10
        targetX == 290 + (itemIndexById(tiers[t].items, item.id) - 1) * 110
    IN  IF t = 0 THEN NotDrawn
        ELSE IF 5 * frame <= itemFrames
        THEN [drawn |-> TRUE, centerStage |-> TRUE, currentX |-> Whole(960),
              currentY |-> Q(1000 * itemFrames + (400 - 1000) * 5 * frame, itemFrames),
              currentSize |-> Q(100 * itemFrames + (150 - 100) * 5 * frame, itemFrames),
              targetX |-> targetX, targetY |-> targetY]
        ELSE IF 5 * frame <= 4 * itemFrames
        THEN [drawn |-> TRUE, centerStage |-> TRUE, currentX |-> Whole(960),
              currentY |-> Whole(400), currentSize |-> Whole(150),
              targetX |-> targetX, targetY |-> targetY]
        ELSE [drawn |-> TRUE, centerStage |-> TRUE,
              currentX |-> Q(960 * itemFrames + (targetX - 960) * (5 * frame - 4 * itemFrames),
                             itemFrames),
              currentY |-> Q(400 * itemFrames + (targetY - 400) * (5 * frame - 4 * itemFrames),
                             itemFrames),
              currentSize |-> Q(150 * itemFrames + (100 - 150) * (5 * frame - 4 * itemFrames),
                                itemFrames),
              targetX |-> targetX, targetY |-> targetY]

\* The cells of tier tiers[t] and of the tiers after it, as drawCompleteTierTable
\* draws them, with the columns counted from 1.
RECURSIVE tableCellsFromOne(_, _)
tableCellsFromOne(tiers, t) ==
    IF t > Len(tiers) THEN <<>>
    ELSE [n \in 1..Len(tiers[t].items) |->
             [id |-> tiers[t].items[n].id, tierName |-> tiers[t].name,
              tierIndex |-> t - 1, indexInTier |-> n - 1, pushed |-> FALSE,
              x |-> Whole(290 + n * 110),
              y |-> Whole(150 + (t - 1) * (120 + 20) + 10), shaken |-> FALSE]]
         \o tableCellsFromOne(tiers, t + 1)

\* drawCompleteTierTable: for (tierIndex, tier) and (itemIndex, item) of tier.items,
\* drawItemInTier(item, 290 + itemIndex * 110, 150 + tierIndex * 140 + 10, 100, 100),
\* for the tiers from tiers[t] on (t counted from 1).
RECURSIVE tableCells(_, _)
tableCells(tiers, t) ==
    IF t > Len(tiers) THEN <<>>
    ELSE [n \in 1..Len(tiers[t].items) |->
             [id |-> tiers[t].items[n].id, tierName |-> tiers[t].name,
              tierIndex |-> t - 1, indexInTier |-> n - 1, pushed |-> FALSE,
              x |-> Whole(290 + (n - 1) * 110),
              y |-> Whole(150 + (t - 1) * (120 + 20) + 10), shaken |-> FALSE]]
         \o tableCells(tiers, t + 1)

\* What one conclusion frame puts on the blank structure: every item of every tier,
\* and no moving item.
completeTierTable(rankingData) ==
    [placed |-> tableCells(rankingData.tiers, 1), moving |-> NotDrawn]

\* What one reveal frame puts on the blank structure: the placed items, then the
\* moving item in the mode of its sub-phase.
revealScene(tiers, allItems, itemIndex, frame, itemFrames, itemDuration) ==
    [placed |-> placedItemsDrawn(tiers, allItems, itemIndex, frame, itemFrames),
     moving |-> IF needsCenterStage(itemDuration)
                THEN movingItemWithCenterStage(tiers, allItems[itemIndex + 1], frame, itemFrames)
                ELSE movingItemDirect(tiers, allItems[itemIndex + 1], frame, itemFrames)]

\* Number.prototype.toString(): the decimal digits, most significant first.
RECURSIVE toString(_)
toString(n) == IF n < 10 THEN <<n>> ELSE Append(toString(n \div 10), n % 10)

\* String.prototype.padStart(targetLength, '0')
RECURSIVE padStart(_, _)
padStart(digits, targetLength) ==
    IF Len(digits) >= targetLength THEN digits
    ELSE padStart(<<0>> \o digits, targetLength)

\* A frame file named by the bare index.
framePathUnpadded(frameIndex) == [kind |-> "frame", name |-> toString(frameIndex)]

\* path.join(tempDir, `frame_${frameIndex.toString().padStart(6, '0')}.png`)
framePath(frameIndex) == [kind |-> "frame", name |-> padStart(toString(frameIndex), 6)]

\* await saveFrame(canvas, tempDir, frameIndex++) when the write succeeds.
SavedFrame(j) ==
    /\ job[j].tempDir \in DOMAIN fs
    /\ fs' = writeFile(fs, job[j].tempDir, framePath(job[j].frameIndex))

\* One iteration of the intro loop: drawBlankTierStructure, saveFrame.
IntroFrame(j) ==
    /\ job[j].pc = "intro"
    /\ job[j].k < introFramesOf(job[j])
    /\ \/ /\ SavedFrame(j)
          /\ job' = [job EXCEPT ![j].k = @ + 1, ![j].frameIndex = @ + 1, ![j].canvas = {},
                       ![j].scene = NoScene, ![j].loadErrors = {}, ![j].defaultStyle = {}]
          /\ UNCHANGED imageCache
       \/ /\ Catch(j, "frames")
          /\ UNCHANGED fs
    /\ UNCHANGED <<now, fontInitialized>>

\* The intro loop ends; the reveal loop starts at itemIndex 0.
IntroEnd(j) ==
    /\ job[j].pc = "intro"
    /\ job[j].k >= introFramesOf(job[j])
    /\ job' = [job EXCEPT ![j].pc = "items", ![j].itemIndex = 0, ![j].frame = 0,
                 ![j].allItems = allItemsOf(job[j].request.rankingData),
                 ![j].phaseLog = Append(@, [phase |-> "intro", itemIndex |-> 0, id |-> "",
                                            tierName |-> "", frames |-> job[j].k,
                                            centerStage |-> FALSE])]
    /\ UNCHANGED <<now, fs, imageCache, fontInitialized>>

\* One iteration of the frame loop of sub-phase itemIndex: the placed items and the
\* moving item are drawn (their images loaded through the cache), then saveFrame.
ItemFrame(j) ==
    LET allItems == job[j].allItems
        sources == itemFrameSources(job[j].request.rankingData, allItems, job[j].itemIndex)
    IN  /\ job[j].pc = "items"
        /\ job[j].itemIndex < Len(allItems)
        /\ job[j].frame < itemFramesOf(job[j])
        /\ \E decodable \in SUBSET loadable(sources \ DOMAIN imageCache) :
              \/ /\ SavedFrame(j)
                 /\ imageCache' = cacheAfterLoads(imageCache, sources, decodable, j)
                 /\ job' = [job EXCEPT ![j].frame = @ + 1, ![j].frameIndex = @ + 1,
                              ![j].loadErrors = loadErrorsOf(imageCache, sources, decodable),
                              ![j].defaultStyle = drawnInDefaultStyle(
                                  itemFrameItems(job[j].request.rankingData, allItems,
                                                 job[j].itemIndex),
                                  cacheAfterLoads(imageCache, sources, decodable, j)),
                              ![j].decodes = decodesAfterLoads(@, imageCache, sources, decodable),
                              ![j].canvas = imagesDrawn(imageCache, sources, decodable, j),
                              ![j].scene = revealScene(job[j].request.rankingData.tiers,
                                              allItems, job[j].itemIndex, job[j].frame,
                                              itemFramesOf(job[j]), itemDurationOfJob(job[j]))]
              \/ /\ Catch(j, "frames")
                 /\ UNCHANGED fs
        /\ UNCHANGED <<now, fontInitialized>>

\* The frame loop of sub-phase itemIndex ends; the next sub-phase starts.
ItemEnd(j) ==
    LET allItems == job[j].allItems
    IN  /\ job[j].pc = "items"
        /\ job[j].itemIndex < Len(allItems)
        /\ job[j].frame >= itemFramesOf(job[j])
        /\ job' = [job EXCEPT ![j].itemIndex = @ + 1, ![j].frame = 0,
                     ![j].phaseLog = Append(@, [phase |-> "item", itemIndex |-> job[j].itemIndex,
                                                id |-> allItems[job[j].itemIndex + 1].id,
                                                tierName |-> allItems[job[j].itemIndex + 1].tierName,
                                                frames |-> job[j].frame,
                                                centerStage |-> needsCenterStage(itemDurationOfJob(job[j]))])]
        /\ UNCHANGED <<now, fs, imageCache, fontInitialized>>

\* The reveal loop ends; the conclusion loop starts.
ItemsEnd(j) ==
    /\ job[j].pc = "items"
    /\ job[j].itemIndex >= Len(job[j].allItems)
    /\ job' = [job EXCEPT ![j].pc = "conclusion", ![j].k = 0]
    /\ UNCHANGED <<now, fs, imageCache, fontInitialized>>

\* One iteration of the conclusion loop: drawCompleteTierTable, saveFrame.
ConclusionFrame(j) ==
    LET sources == tableSources(job[j].request.rankingData)
    IN  /\ job[j].pc = "conclusion"
        /\ job[j].k < conclusionFramesOf(job[j])
        /\ \E decodable \in SUBSET loadable(sources \ DOMAIN imageCache) :
              \/ /\ SavedFrame(j)
                 /\ imageCache' = cacheAfterLoads(imageCache, sources, decodable, j)
                 /\ job' = [job EXCEPT ![j].k = @ + 1, ![j].frameIndex = @ + 1,
                              ![j].loadErrors = loadErrorsOf(imageCache, sources, decodable),
                              ![j].defaultStyle = drawnInDefaultStyle(
                                  tableItems(job[j].request.rankingData),
                                  cacheAfterLoads(imageCache, sources, decodable, j)),
                              ![j].decodes = decodesAfterLoads(@, imageCache, sources, decodable),
                              ![j].canvas = imagesDrawn(imageCache, sources, decodable, j),
                              ![j].scene = completeTierTable(job[j].request.rankingData)]
              \/ /\ Catch(j, "frames")
                 /\ UNCHANGED fs
        /\ UNCHANGED <<now, fontInitialized>>

\* The conclusion loop ends: generateFrames returns frameIndex, and POST calls
\* generateVideoWithFFmpeg.
ConclusionEnd(j) ==
    /\ job[j].pc = "conclusion"
    /\ job[j].k >= conclusionFramesOf(job[j])
    /\ job' = [job EXCEPT ![j].pc = "encode", ![j].frameCount = job[j].frameIndex,
                 ![j].phaseLog = Append(@, [phase |-> "conclusion", itemIndex |-> 0, id |-> "",
                                            tierName |-> "", frames |-> job[j].k,
                                            centerStage |-> FALSE])]
    /\ UNCHANGED <<now, fs, imageCache, fontInitialized>>

\* ------------------------------------------------------- POST: the last steps

\* generateVideoWithFFmpeg: await execAsync(command); return videoPath.
Encode(j) ==
    /\ job[j].pc = "encode"
    /\ \/ /\ job[j].tempDir \in DOMAIN fs
          /\ fs' = writeFile(fs, job[j].tempDir, File("output", 0))
          /\ job' = [job EXCEPT ![j].pc = "readFile", ![j].videoPath = File("output", 0),
                                ![j].execs = Append(@, Exec("encode", job[j].i, "zero"))]
          /\ UNCHANGED imageCache
       \/ /\ ExecRejected(j, "encode", "encode")
          /\ UNCHANGED fs
    /\ UNCHANGED <<now, fontInitialized>>

\* readFile whose rejection is swallowed: the handler goes on with no buffer.
ReadFileSwallowed(j) ==
    /\ job[j].pc = "readFile"
    /\ job' = [job EXCEPT ![j].pc = "cleanup",
                 ![j].videoBuffer = (job[j].tempDir \in DOMAIN fs
                                     /\ job[j].videoPath \in fs[job[j].tempDir])]
    /\ UNCHANGED <<now, fs, imageCache, fontInitialized>>

\* const videoBuffer = await fs.promises.readFile(videoPath)
ReadFile(j) ==
    /\ job[j].pc = "readFile"
    /\ \/ /\ job[j].tempDir \in DOMAIN fs
          /\ job[j].videoPath \in fs[job[j].tempDir]
          /\ job' = [job EXCEPT ![j].pc = "cleanup", ![j].videoBuffer = TRUE]
          /\ UNCHANGED imageCache
       \/ Catch(j, "read")
    /\ UNCHANGED <<now, fs, fontInitialized>>

\* await cleanupTempFiles(tempDir); imageCache.clear(); return the video.
CleanupTempFiles(j) ==
    /\ job[j].pc = "cleanup"
    /\ \E rmOk \in BOOLEAN : fs' = cleanupTempFiles(fs, job[j].tempDir, rmOk)
    /\ imageCache' = cacheClear(imageCache)
    /\ job' = [job EXCEPT ![j] = Returned(job[j], videoResponse, "")]
    /\ UNCHANGED <<now, fontInitialized>>

\* execAsync is promisify(exec) called without a timeout option: a tool that does
\* not exit leaves the await pending, and nothing else resumes the call.
ExecNeverReturns(j) ==
    /\ job[j].pc \in {"transcode", "probe", "silence", "concat", "encode"}
    /\ job' = [job EXCEPT ![j].pc = "hung",
                          ![j].execs = Append(@, Exec(job[j].pc, job[j].i, "none"))]
    /\ UNCHANGED <<now, fs, imageCache, fontInitialized>>

\* ------------------------------------------------------------------- the clock

\* Date.now() advances. Only a call that has not named its directory yet reads it.
Tick(JobSet) ==
    /\ now < MaxClock
    /\ \E j \in JobSet : job[j].pc \in {"ensureFont", "json"}
    /\ now' = now + 1
    /\ UNCHANGED <<fs, imageCache, fontInitialized, job>>

\* ---------------------------------------------------------------- the requests

X == "X"
Y == "Y"
Z == "Z"

\* Spec: overlapping calls, each with the same short request.
SmallSections ==
    <<Section("intro", FALSE, 4, FALSE, 0), Section("item", TRUE, 4, FALSE, 0),
      Section("conclusion", FALSE, 4, FALSE, 0)>>

SmallRequests ==
    {[rankingData |-> [tiers |-> <<Tier("a", "A", <<Item(X, Data1)>>)>>,
                       unrankedItems |-> <<>>, dragHistory |-> NoHistory],
      audioSections |-> SmallSections]}

SmallProbes == {[kind |-> "throws", value |-> 0], [kind |-> "number", value |-> 4]}

\* SpecFrames: one call, many ranking documents and narrations.
FrameTiers ==
    {[tiers |-> <<Tier("a", "A", <<Item(X, Data1), Item(Y, NoImage)>>),
                  Tier("b", "B", <<Item(Z, NoImage)>>)>>,
      unrankedItems |-> <<>>],
     [tiers |-> <<Tier("a", "A", <<Item(Y, NoImage)>>), Tier("b", "B", <<Item(X, NoImage)>>)>>,
      unrankedItems |-> <<Item(Z, NoImage)>>]}

LogEntries == {Entry(i, t, ts) : i \in {X, Y}, t \in {"a", "b"}, ts \in 1..2}

RECURSIVE SeqsUpTo(_, _)
SeqsUpTo(S, n) ==
    IF n = 0 THEN {<<>>}
    ELSE LET shorter == SeqsUpTo(S, n - 1)
         IN  shorter \cup {Append(q, e) : q \in shorter, e \in S}

FrameHistories == {NoHistory} \cup {History(q) : q \in SeqsUpTo(LogEntries, MaxLog)}

\* The histories of the requests with long phases.
FewHistories ==
    {NoHistory, History(<<>>), History(<<Entry(X, "a", 1)>>),
     History(<<Entry(Y, "a", 2), Entry(X, "a", 1)>>)}

\* Narrations with an item section for each of three items; short phases.
ShortSections ==
    {<<Section("intro", FALSE, 33, FALSE, 0), Section("item", TRUE, 7, FALSE, 0),
       Section("item", FALSE, 10, FALSE, 0), Section("item", FALSE, 4, FALSE, 0),
       Section("conclusion", FALSE, 5, FALSE, 0)>>,
     <<Section("conclusion", TRUE, 33, FALSE, 0), Section("item", FALSE, 7, FALSE, 0),
       Section("item", FALSE, 4, FALSE, 0), Section("intro", FALSE, 5, FALSE, 0),
       Section("item", FALSE, 4, FALSE, 0)>>}

\* Narrations with fewer item sections than items, a 3.33 s phase, a missing phase,
\* a text-driven section and a section that declares no duration.
LongSections ==
    {<<Section("intro", FALSE, 333, FALSE, 0), Section("item", FALSE, 10, FALSE, 0),
       Section("conclusion", TRUE, 333, FALSE, 0)>>,
     <<Section("item", FALSE, 0, TRUE, 9), Section("item", TRUE, 0, FALSE, 0),
       Section("conclusion", FALSE, 0, FALSE, 0)>>,
     <<Section("intro", FALSE, 10, FALSE, 0)>>}

Request(d, h, a) ==
    [rankingData |-> [tiers |-> d.tiers, unrankedItems |-> d.unrankedItems, dragHistory |-> h],
     audioSections |-> a]

FrameRequests ==
    {Request(d, h, a) : d \in FrameTiers, h \in FrameHistories, a \in ShortSections}
    \cup {Request(d, h, a) : d \in FrameTiers, h \in FewHistories, a \in LongSections}

\* ffprobe fails, prints no number, prints 0, prints 0.10.
FrameProbes ==
    {[kind |-> "throws", value |-> 0], [kind |-> "nan", value |-> 0],
     [kind |-> "number", value |-> 0], [kind |-> "number", value |-> 10]}

\* SpecStage: one call, requests that show the reveal geometry.
Silent(type, duration) == Section(type, FALSE, duration, FALSE, 0)

\* Tier A holds X and Y, placed at t = 1 and t = 2; intro 3 s, X 5 s, Y 2 s,
\* conclusion 3 s.
TwoItemRequest ==
    Request([tiers |-> <<Tier("a", "A", <<Item(X, NoImage), Item(Y, NoImage)>>),
                         Tier("b", "B", <<>>)>>,
             unrankedItems |-> <<>>],
            History(<<Entry(X, "a", 1), Entry(Y, "a", 2)>>),
            <<Silent("intro", 300), Silent("item", 500), Silent("item", 200),
              Silent("conclusion", 300)>>)

\* Sub-phases at and just over 4 s, measured or declared, into either tier.
ThresholdRequests ==
    {Request([tiers |-> <<Tier("a", "A", <<Item(X, NoImage)>>),
                          Tier("b", "B", <<Item(Y, Data1)>>)>>,
              unrankedItems |-> <<>>], h, a) :
        h \in {History(<<Entry(X, "a", 1), Entry(Y, "b", 2)>>),
               History(<<Entry(Y, "b", 1), Entry(X, "a", 1)>>),
               History(<<Entry(X, "a", 1), Entry(X, "a", 2)>>)},
        a \in {<<Silent("intro", 4), Silent("item", 400), Silent("item", 401),
                 Silent("conclusion", 4)>>,
               <<Silent("intro", 4), Section("item", TRUE, 400, FALSE, 0),
                 Silent("conclusion", 4)>>}}

\* Tier A holds X, Y, Z; three placements of any of them (every order, and items
\* placed more than once), in sub-phases of 3, 2, 1 and 60 frames.
SqueezeRequests ==
    {Request([tiers |-> <<Tier("a", "A", <<Item(X, NoImage), Item(Y, NoImage), Item(Z, NoImage)>>),
                          Tier("b", "B", <<>>)>>,
              unrankedItems |-> <<>>],
             History(<<Entry(first, "a", 1), Entry(second, "a", 2), Entry(third, "a", 3)>>), a) :
        first \in {X, Y, Z}, second \in {X, Y, Z}, third \in {X, Y, Z},
        a \in {<<Silent("intro", 4), Silent("item", 10), Silent("item", 7), Silent("item", 4),
                 Silent("conclusion", 4)>>,
               <<Silent("item", 4), Silent("item", 10), Silent("conclusion", 4),
                 Silent("intro", 4)>>}}

StageRequests == {TwoItemRequest} \cup ThresholdRequests \cup SqueezeRequests

StageProbes == {[kind |-> "throws", value |-> 0], [kind |-> "number", value |-> 401]}

\* SpecImages: one call, tier A with X and Y, their images of every form.
ImageSources ==
    {NoImage, Data1, Staged1, Remote1, Bare1, PathPlain, PathDotted, PathMissing, Blob1}

ImageRequests ==
    {Request([tiers |-> <<Tier("a", "A", <<Item(X, x), Item(Y, y)>>)>>,
              unrankedItems |-> <<>>], NoHistory,
             <<Silent("intro", 4), Section("item", TRUE, 4, FALSE, 0), Silent("item", 7),
               Silent("conclusion", 7)>>) :
        x \in ImageSources, y \in ImageSources}

ImageProbes == {[kind |-> "throws", value |-> 0], [kind |-> "number", value |-> 10]}

\* SpecNames: one call, two tiers with distinct ids and the same display name, X in
\* the first and Y in the second, assigned in that order or with no history.
NameRequests ==
    {Request([tiers |-> <<Tier("a", "A", <<Item(X, NoImage)>>),
                          Tier("b", "A", <<Item(Y, NoImage)>>)>>,
              unrankedItems |-> <<>>], h,
             <<Silent("intro", 4), Section("item", TRUE, 7, FALSE, 0), Silent("item", 10),
               Silent("conclusion", 4)>>) :
        h \in {NoHistory, History(<<Entry(X, "a", 1), Entry(Y, "b", 2)>>)}}

\* ----------------------------------------------------------- specifications

Step(j, Requests, Probes) ==
    \/ EnsureDefaultFontRegistered(j)
    \/ RequestJson(j, Requests)
    \/ Mkdir(j)
    \/ WriteTempAudio(j)
    \/ Transcode(j)
    \/ Unlink(j)
    \/ ProbeDuration(j, Probes)
    \/ Silence(j)
    \/ WriteConcatList(j)
    \/ Concat(j)
    \/ IntroFrame(j)
    \/ IntroEnd(j)
    \/ ItemFrame(j)
    \/ ItemEnd(j)
    \/ ItemsEnd(j)
    \/ ConclusionFrame(j)
    \/ ConclusionEnd(j)
    \/ Encode(j)
    \/ ExecNeverReturns(j)
    \/ ReadFile(j)
    \/ CleanupTempFiles(j)

Next == Tick(Jobs) \/ \E j \in Jobs : Step(j, SmallRequests, SmallProbes)

Spec == Init /\ [][Next]_vars

NextFrames == Tick({1}) \/ Step(1, FrameRequests, FrameProbes)

SpecFrames == Init /\ [][NextFrames]_vars

NextStage == Tick({1}) \/ Step(1, StageRequests, StageProbes)

SpecStage == Init /\ [][NextStage]_vars

NextImages == Tick({1}) \/ Step(1, ImageRequests, ImageProbes)

SpecImages == Init /\ [][NextImages]_vars

NextNames == Tick({1}) \/ Step(1, NameRequests, StageProbes)

SpecNames == Init /\ [][NextNames]_vars

\* One call; every step that can be taken is taken in the end.
NextLive == Tick({1}) \/ Step(1, SmallRequests, SmallProbes)

SpecLive == Init /\ [][NextLive]_vars /\ WF_vars(NextLive)

\* ======================================================================
\* Claims, checked under Spec (overlapping calls)
\* ======================================================================

Returns(j) == job[j].pc # "done" /\ job'[j].pc = "done"

\* A call that made a working directory and has not returned yet.
HoldsDir(j) == job[j].pc \notin {"ensureFont", "json", "mkdir", "done"}

Rendering(j) == job[j].pc \in {"intro", "items", "conclusion"}

\* C1: once a call has returned the video or the 500 error, the working
\* directory it named is gone.
C1_DirRemovedOnEveryExit ==
    \A j \in Jobs :
        (job[j].pc = "done" /\ job[j].response \in {videoResponse, errorResponse}
         /\ job[j].tempDir # NoDir)
        => job[j].tempDir \notin DOMAIN fs

\* C2: a call returns the video (200, video/mp4) only from the state in which
\* processAudio returned a track, generateFrames returned its frame count, the
\* encoder returned the output path and the output was read; a failed await of
\* any of these stages returns the 500 JSON error; nothing else is returned but
\* the 413 of the content-length guard.
C2_VideoOrError ==
    [][\A j \in Jobs : Returns(j) =>
          \/ /\ job'[j].response = videoResponse
             /\ job'[j].failed = ""
             /\ job[j].audioPath # NoFile
             /\ job[j].frameCount = job[j].frameIndex
             /\ Len(job[j].phaseLog) = Len(job[j].allItems) + 2
             /\ job[j].videoPath # NoFile
             /\ job[j].videoBuffer
          \/ /\ job'[j].response = errorResponse
             /\ job'[j].failed \in {"json", "mkdir", "audio", "frames", "encode", "read"}
          \/ /\ job'[j].response = tooLargeResponse
             /\ job[j].pc = "ensureFont"]_vars

\* C2 witness: one call has returned the video and another the 500 error after
\* its encoder failed.
C2_Witness ==
    \E j, k \in Jobs :
        /\ job[j].pc = "done" /\ job[j].response = videoResponse
        /\ job[k].pc = "done" /\ job[k].response = errorResponse /\ job[k].failed = "encode"

\* C3: two calls that hold a working directory at the same time hold different ones.
C3_DistinctDirs ==
    \A j, k \in Jobs :
        (j # k /\ HoldsDir(j) /\ HoldsDir(k)) => job[j].tempDir # job[k].tempDir

\* C4: every Image a call draws was decoded by that call, and a call that returns
\* evicts no cache entry that another call, still rendering, decoded.
C4_CacheIsolation ==
    [][/\ \A j \in Jobs : \A img \in job'[j].canvas : img.decodedBy = j
       /\ \A j, k \in Jobs :
            (j # k /\ Returns(k) /\ Rendering(j))
            => \A s \in DOMAIN imageCache :
                  imageCache[s].decodedBy = j => s \in DOMAIN imageCache']_vars

\* C5: in the state a call returns the video or the 500 error in, the image
\* cache is empty.
C5_CacheEmptyAtEnd ==
    [][\A j \in Jobs :
          (Returns(j) /\ job'[j].response \in {videoResponse, errorResponse})
          => imageCache' = <<>>]_vars

\* C5 witness: a call has returned the video, the cache is empty, and the other call
\* still shows an Image it drew from the cache.
C5_Witness ==
    \E j, k \in Jobs :
        /\ job[j].pc = "done" /\ job[j].response = videoResponse
        /\ Rendering(k) /\ job[k].canvas # {}
        /\ imageCache = <<>>

\* C6: a call renders frames only with every section normalized and the track
\* concatenated; it calls the encoder only with the last frame written; it tears
\* the directory down only with the output read.
C6_StagesInOrder ==
    \A j \in Jobs :
        /\ (Rendering(j) \/ job[j].frameIndex > 0)
           => /\ Len(job[j].sectionDurations) = Len(job[j].request.audioSections)
              /\ Len(job[j].audioFiles) = Len(job[j].request.audioSections)
              /\ job[j].audioPath = IF Len(job[j].audioFiles) = 1
                                    THEN job[j].audioFiles[1] ELSE File("final_audio", 0)
        /\ job[j].pc \in {"encode", "readFile", "cleanup"}
           => /\ job[j].frameCount = job[j].frameIndex
              /\ job[j].phaseLog # <<>>
              /\ job[j].phaseLog[Len(job[j].phaseLog)].phase = "conclusion"
              /\ job[j].audioPath # NoFile
        /\ job[j].pc = "cleanup"
           => job[j].videoBuffer /\ job[j].videoPath # NoFile

\* C6 witness: a call is about to tear its directory down, with three sections
\* normalized, frames written and the output read.
C6_Witness ==
    \E j \in Jobs :
        /\ job[j].pc = "cleanup"
        /\ job[j].frameCount > 0
        /\ Len(job[j].sectionDurations) = 3
        /\ job[j].audioPath = File("final_audio", 0)
        /\ job[j].videoBuffer

\* ======================================================================
\* Claims, checked under SpecFrames (one call, many requests)
\* ======================================================================

\* generateFrames of the call has returned and the call's locals are still alive.
GenDone == job[1].pc \in {"encode", "readFile", "cleanup"}

Req == job[1].request

Entries == Req.rankingData.dragHistory.entries

HasLog == Req.rankingData.dragHistory.defined /\ Len(Entries) > 0

\* The reveal sub-phases generateFrames went through, in order.
ItemLog == SelectSeq(job[1].phaseLog, LAMBDA p : p.phase = "item")

\* The first section of a type, 0 when there is none.
FirstOfType(type) ==
    LET hits == {n \in DOMAIN Req.audioSections : Req.audioSections[n].type = type}
    IN  IF hits = {} THEN 0 ELSE CHOOSE n \in hits : \A m \in hits : n <= m

\* C7: the intro phase and the conclusion phase each have floor(d * 30) frames, d
\* the duration processAudio returned for that section.
C7_IntroConclusionFrames ==
    GenDone =>
        LET log == job[1].phaseLog
            intro == FirstOfType("intro")
            conclusion == FirstOfType("conclusion")
        IN  /\ log[1].phase = "intro"
            /\ log[Len(log)].phase = "conclusion"
            /\ intro # 0
               => log[1].frames = (job[1].sectionDurations[intro] * 30) \div 100
            /\ conclusion # 0
               => log[Len(log)].frames = (job[1].sectionDurations[conclusion] * 30) \div 100

\* C7 witness: a 3.33 s intro gave 99 frames, with two items revealed from a history
\* in between.
C7_Witness ==
    /\ GenDone
    /\ HasLog
    /\ Len(ItemLog) = 2
    /\ FirstOfType("intro") # 0
    /\ job[1].sectionDurations[FirstOfType("intro")] = 333
    /\ job[1].phaseLog[1].frames = 99
    /\ FirstOfType("conclusion") # 0

\* C8: an item with two history entries of different timestamps gets at most one
\* reveal sub-phase (the earlier entry gives none).
C8_LatestEntryOnly ==
    (GenDone /\ HasLog) =>
        \A a, b \in DOMAIN Entries :
            (Entries[a].itemId = Entries[b].itemId
             /\ Entries[a].timestamp < Entries[b].timestamp)
            => Cardinality({n \in DOMAIN ItemLog : ItemLog[n].id = Entries[a].itemId}) <= 1

\* The history entries whose target tier exists and holds the item.
Resolvable ==
    {e \in DOMAIN Entries :
        \E t \in DOMAIN Req.rankingData.tiers :
            /\ Req.rankingData.tiers[t].id = Entries[e].targetTierId
            /\ \E n \in DOMAIN Req.rankingData.tiers[t].items :
                  Req.rankingData.tiers[t].items[n].id = Entries[e].itemId}

\* The place of a resolvable entry in ascending timestamp order, ties in input order.
Rank(e) ==
    1 + Cardinality({d \in Resolvable :
            \/ Entries[d].timestamp < Entries[e].timestamp
            \/ Entries[d].timestamp = Entries[e].timestamp /\ d < e})

TierNameOfId(id) ==
    LET t == CHOOSE u \in DOMAIN Req.rankingData.tiers : Req.rankingData.tiers[u].id = id
    IN  Req.rankingData.tiers[t].name

RECURSIVE ItemsBefore(_)
ItemsBefore(t) ==
    IF t <= 1 THEN 0 ELSE ItemsBefore(t - 1) + Len(Req.rankingData.tiers[t - 1].items)

\* C9: with a history the sub-phases are the resolvable entries in ascending
\* timestamp order, equal timestamps in input order; without one they are every
\* tier's items in tier order and item order, then the unranked items.
C9_RevealOrder ==
    GenDone =>
        IF HasLog
        THEN /\ Len(ItemLog) = Cardinality(Resolvable)
             /\ \A e \in Resolvable :
                   /\ ItemLog[Rank(e)].id = Entries[e].itemId
                   /\ ItemLog[Rank(e)].tierName = TierNameOfId(Entries[e].targetTierId)
        ELSE LET tiers == Req.rankingData.tiers
                 ranked == ItemsBefore(Len(tiers) + 1)
             IN  /\ Len(ItemLog) = ranked + Len(Req.rankingData.unrankedItems)
                 /\ \A t \in DOMAIN tiers : \A n \in DOMAIN tiers[t].items :
                       /\ ItemLog[ItemsBefore(t) + n].id = tiers[t].items[n].id
                       /\ ItemLog[ItemsBefore(t) + n].tierName = tiers[t].name
                 /\ \A n \in DOMAIN Req.rankingData.unrankedItems :
                       ItemLog[ranked + n].id = Req.rankingData.unrankedItems[n].id

\* C9 witness: two entries of one timestamp, the first in the input revealed first
\* although it is the second item of its tier.
C9_Witness ==
    /\ GenDone
    /\ HasLog
    /\ Len(Entries) = 2
    /\ Entries[1].timestamp = Entries[2].timestamp
    /\ Len(ItemLog) = 2
    /\ ItemLog[1].id = Y /\ ItemLog[2].id = X
    /\ ItemLog[1].tierName = ItemLog[2].tierName

\* The n-th section of type item.
NthItemSection(n) ==
    CHOOSE i \in DOMAIN Req.audioSections :
        /\ Req.audioSections[i].type = "item"
        /\ Cardinality({m \in 1..(i - 1) : Req.audioSections[m].type = "item"}) = n - 1

ItemSectionCount ==
    Cardinality({i \in DOMAIN Req.audioSections : Req.audioSections[i].type = "item"})

\* C10: the n-th sub-phase has floor(d * 30) frames, d the duration of the n-th item
\* section, and 60 frames when there are fewer than n item sections.
C10_ItemFramesByPosition ==
    GenDone =>
        \A n \in DOMAIN ItemLog :
            ItemLog[n].frames =
                IF n <= ItemSectionCount
                THEN (job[1].sectionDurations[NthItemSection(n)] * 30) \div 100
                ELSE 60

\* C10 witness: three items revealed with one item section: the first sub-phase has
\* that section's 3 frames, the other two 60.
C10_Witness ==
    /\ GenDone
    /\ ItemSectionCount = 1
    /\ Len(ItemLog) = 3
    /\ ItemLog[1].frames = 3
    /\ ItemLog[2].frames = 60
    /\ ItemLog[3].frames = 60

\* C11: every reveal sub-phase is of an item whose tier resolves: an entry that does
\* not resolve and an unranked item of the fallback order get no sub-phase, no frame
\* and no item section.
C11_UnresolvableSkipped ==
    GenDone =>
        /\ \A n \in DOMAIN ItemLog :
              \E t \in DOMAIN Req.rankingData.tiers :
                  Req.rankingData.tiers[t].name = ItemLog[n].tierName
        /\ HasLog => Len(ItemLog) = Cardinality(Resolvable)

\* A probe that gave no positive duration.
ProbeFailed(p) == p.d.isNull \/ p.d.value <= 0

\* C16 as claimed: after a failed probe the duration of the section is the declared
\* one.
C16_FailedProbeGivesDeclared ==
    \A n \in DOMAIN job[1].probed :
        ProbeFailed(job[1].probed[n])
        => job[1].sectionDurations[job[1].probed[n].section + 1]
           = Req.audioSections[job[1].probed[n].section + 1].duration

\* C16 amended: a probe that throws or gives no positive number does not end the
\* call, and the duration of its section is the declared one when that is not 0 and
\* 3 s when it is.
C16_FailedProbeFallback ==
    [][(Len(job'[1].probed) > Len(job[1].probed)
        /\ ProbeFailed(job'[1].probed[Len(job'[1].probed)]))
       => LET i == job[1].i + 1
              declared == job[1].request.audioSections[i].duration
          IN  /\ job'[1].pc # "done"
              /\ job'[1].failed = ""
              /\ job'[1].sectionDurations[i] = IF declared # 0 THEN declared ELSE 300]_vars

\* C16 witness: the video has been read after a probe that failed; the section kept
\* its declared 0.07 s and its sub-phase has 2 frames.
C16_Witness ==
    /\ job[1].pc = "cleanup"
    /\ job[1].videoBuffer
    /\ \E n \in DOMAIN job[1].probed :
          /\ ProbeFailed(job[1].probed[n])
          /\ Req.audioSections[job[1].probed[n].section + 1].type = "item"
          /\ job[1].sectionDurations[job[1].probed[n].section + 1] = 7
    /\ Len(ItemLog) >= 1
    /\ ItemLog[1].frames = 2

\* generateFrames is running or has returned, its locals alive.
InGenerateFrames == job[1].pc \in {"intro", "items", "conclusion"} \/ GenDone

\* C17: a section for which processAudio returned a positive duration is planned with
\* exactly that duration, whatever it declares and whatever its text; the phases get
\* their frames from it.
C17_MeasuredDurationRules ==
    InGenerateFrames =>
        /\ Len(job[1].sections) = Len(Req.audioSections)
        /\ \A i \in DOMAIN Req.audioSections :
              job[1].sectionDurations[i] > 0
              => job[1].sections[i].duration = job[1].sectionDurations[i]
        /\ \A n \in DOMAIN ItemLog :
              (n <= ItemSectionCount /\ job[1].sectionDurations[NthItemSection(n)] > 0)
              => ItemLog[n].frames = (job[1].sectionDurations[NthItemSection(n)] * 30) \div 100

\* C17 witness: an item section that declares 0.07 s was measured at 0.10 s and its
\* sub-phase has the 3 frames of 0.10 s.
C17_Witness ==
    /\ GenDone
    /\ ItemSectionCount >= 1
    /\ Req.audioSections[NthItemSection(1)].duration = 7
    /\ job[1].sectionDurations[NthItemSection(1)] = 10
    /\ job[1].sections[NthItemSection(1)].duration = 10
    /\ Len(ItemLog) >= 1
    /\ ItemLog[1].frames = 3

\* ======================================================================
\* Claims, checked under SpecStage (one call, the reveal geometry)
\* ======================================================================

\* A reveal frame of the current sub-phase is on the canvas.
RevealFrameDrawn == job[1].pc = "items" /\ job[1].frame > 0

\* The duration of the n-th sub-phase: that of the n-th item section, 2 s without one.
SubPhaseDuration(n) ==
    IF n <= ItemSectionCount THEN job[1].sectionDurations[NthItemSection(n)] ELSE 200

SubPhaseFrames(n) == (SubPhaseDuration(n) * 30) \div 100

\* A coordinate is the whole number v.
IsAt(q, v) == q.n = v * q.d

\* C12: a sub-phase is drawn in centre-stage mode exactly when its duration is over
\* 4 s, each sub-phase by its own duration.
C12_TheatricalIffOver4s ==
    /\ (RevealFrameDrawn /\ job[1].scene.moving.drawn)
       => (job[1].scene.moving.centerStage <=> SubPhaseDuration(job[1].itemIndex + 1) > 400)
    /\ \A n \in DOMAIN ItemLog : ItemLog[n].centerStage <=> SubPhaseDuration(n) > 400

\* C12 witness: one call with a centre-stage sub-phase of 4.01 s and a direct one of
\* exactly 4 s.
C12_Witness ==
    /\ GenDone
    /\ Len(ItemLog) = 2
    /\ SubPhaseDuration(1) = 400 /\ ~ItemLog[1].centerStage
    /\ SubPhaseDuration(2) = 401 /\ ItemLog[2].centerStage

\* C13: in centre-stage mode, in every frame with progress from 20% to 80% (so at
\* 50%), the moving item is a square of 150 centred at (960, 400), whatever its
\* target.
C13_CenterHold ==
    (/\ RevealFrameDrawn
     /\ job[1].scene.moving.drawn
     /\ job[1].scene.moving.centerStage
     /\ 5 * (job[1].frame - 1) >= SubPhaseFrames(job[1].itemIndex + 1)
     /\ 5 * (job[1].frame - 1) <= 4 * SubPhaseFrames(job[1].itemIndex + 1))
    => /\ IsAt(job[1].scene.moving.currentSize, 150)
       /\ IsAt(job[1].scene.moving.currentX, 960)
       /\ IsAt(job[1].scene.moving.currentY, 400)

\* C13 witness: the frame at progress 0.5 of a centre-stage sub-phase whose target is
\* in the second tier row.
C13_Witness ==
    /\ RevealFrameDrawn
    /\ job[1].scene.moving.centerStage
    /\ 2 * (job[1].frame - 1) = SubPhaseFrames(job[1].itemIndex + 1)
    /\ job[1].scene.moving.targetY = 300
    /\ IsAt(job[1].scene.moving.currentSize, 150)

\* C14: for tier A = [X, Y], X placed at t = 1 and Y at t = 2, and sections of 3 s,
\* 5 s, 2 s and 3 s: 90 intro frames, 150 frames of X in centre-stage mode with X
\* held at the centre from frame 30 to frame 120, 60 frames of Y moving in a straight
\* line, 90 conclusion frames, 390 frames in all.
C14_EndToEnd ==
    Req = TwoItemRequest =>
        /\ GenDone =>
              /\ [n \in DOMAIN job[1].phaseLog |->
                     <<job[1].phaseLog[n].phase, job[1].phaseLog[n].id,
                       job[1].phaseLog[n].frames, job[1].phaseLog[n].centerStage>>]
                 = << <<"intro", "", 90, FALSE>>, <<"item", X, 150, TRUE>>,
                      <<"item", Y, 60, FALSE>>, <<"conclusion", "", 90, FALSE>> >>
              /\ job[1].frameCount = 390
        /\ (RevealFrameDrawn /\ job[1].itemIndex = 0 /\ job[1].frame - 1 \in 30..120)
           => /\ job[1].scene.moving.centerStage
              /\ IsAt(job[1].scene.moving.currentX, 960)
              /\ IsAt(job[1].scene.moving.currentY, 400)
              /\ IsAt(job[1].scene.moving.currentSize, 150)
        /\ (RevealFrameDrawn /\ job[1].itemIndex = 1)
           => /\ ~job[1].scene.moving.centerStage
              /\ IsAt(job[1].scene.moving.currentSize, 100)
              /\ job[1].scene.moving.currentX.n * 60
                 = (960 * 60 + (400 - 960) * (job[1].frame - 1)) * job[1].scene.moving.currentX.d
              /\ job[1].scene.moving.currentY.n * 60
                 = (1000 * 60 + (160 - 1000) * (job[1].frame - 1)) * job[1].scene.moving.currentY.d

\* C14 witness: generateFrames has returned 390 for that request.
C14_Witness ==
    /\ Req = TwoItemRequest
    /\ job[1].pc = "encode"
    /\ job[1].frameCount = 390
    /\ Len(ItemLog) = 2

\* The item of the current sub-phase, its tier and its index in that tier's list.
Incoming == job[1].allItems[job[1].itemIndex + 1]

IncomingTier ==
    CHOOSE t \in DOMAIN Req.rankingData.tiers : Req.rankingData.tiers[t].name = Incoming.tierName

IncomingIndex ==
    (CHOOSE n \in DOMAIN Req.rankingData.tiers[IncomingTier].items :
        Req.rankingData.tiers[IncomingTier].items[n].id = Incoming.id) - 1

\* The placed items the frame shows in the incoming item's tier.
PlacedInTier ==
    {n \in DOMAIN job[1].scene.placed : job[1].scene.placed[n].tierName = Incoming.tierName}

\* C15: in the last frame of a sub-phase whose item, not placed before, goes to index
\* k of a tier that shows more than k placed items, each placed item of the tier at index k or more
\* is one pitch (110) right of its cell, without jitter, the others are in their
\* cells, and the moving item is bound for cell k.
C15_SqueezeComplete ==
    (/\ RevealFrameDrawn
     /\ job[1].frame = SubPhaseFrames(job[1].itemIndex + 1)
     /\ job[1].scene.moving.drawn
     /\ \A n \in PlacedInTier : job[1].scene.placed[n].id # Incoming.id
     /\ IncomingIndex < Cardinality(PlacedInTier))
    => /\ \A n \in PlacedInTier :
              LET cell == job[1].scene.placed[n]
              IN  IF cell.indexInTier >= IncomingIndex
                  THEN IsAt(cell.x, 290 + (cell.indexInTier + 1) * 110) /\ ~cell.shaken
                  ELSE IsAt(cell.x, 290 + cell.indexInTier * 110) /\ ~cell.shaken
       /\ job[1].scene.moving.targetX = 290 + IncomingIndex * 110

\* ------------------------------- Claims, checked under Spec (the external tools)

\* The execAsync calls a call has made so far.
Execs(j) == job[j].execs

RetryFreeTools == {"transcode", "silence", "concat", "encode"}

EndsWithError(jr) == jr.pc = "done" /\ jr.response = errorResponse

OutputMissing(jr) ==
    ~(jr.tempDir \in DOMAIN fs /\ jr.videoPath \in fs[jr.tempDir])

\* C18: within one call no transcode, silence synthesis, concatenation or encode is
\* invoked twice for the same section; a non-zero exit of any of them is the last
\* invocation of the call, which returns the error response; and a call that
\* goes on from reading an encoder output that is not there returns the error
\* response.
C18_NoRetrySingleFailureFails ==
    [][\A j \in Jobs :
        /\ \A n, m \in DOMAIN job'[j].execs :
              (n # m /\ job'[j].execs[n].tool \in RetryFreeTools)
              => ~(/\ job'[j].execs[n].tool = job'[j].execs[m].tool
                   /\ job'[j].execs[n].i = job'[j].execs[m].i)
        /\ \A n \in DOMAIN job'[j].execs :
              (job'[j].execs[n].tool \in RetryFreeTools /\ job'[j].execs[n].exit = "nonzero")
              => n = Len(job'[j].execs) /\ EndsWithError(job'[j])
        /\ (job[j].pc = "readFile" /\ OutputMissing(job[j]) /\ job'[j] # job[j])
           => EndsWithError(job'[j])]_vars

\* C18 witness: a call has returned the error response right after its encoder
\* exited non-zero, every section before it normalized once.
C18_Witness ==
    \E j \in Jobs :
        /\ EndsWithError(job[j])
        /\ Len(Execs(j)) >= 3
        /\ Execs(j)[Len(Execs(j))] = Exec("encode", Execs(j)[Len(Execs(j))].i, "nonzero")
        /\ \E n \in DOMAIN Execs(j) : Execs(j)[n] = Exec("transcode", Execs(j)[n].i, "zero")

\* C20: a call decodes each image source at most once: after the first decode
\* every frame of the call that draws the source is served from the cache.
C20_OneDecodePerSource ==
    \A j \in Jobs : \A s \in DOMAIN job[j].decodes : job[j].decodes[s] <= 1

\* ----------------------- Claims, checked under SpecLive (a tool that never exits)

\* C19: a call whose external tool never exits still returns in the end, with the
\* error response.
C19_HungToolStillFails ==
    (job[1].pc = "hung") ~> EndsWithError(job[1])

\* ======================================================================
\* Claims, checked under SpecFrames (one call): the font, the frame files,
\* the audio track
\* ======================================================================

\* C23: a call processes audio, renders frames or encodes only when the DefaultSans
\* font is registered: without a registered font the call has ended before.
C23_NoFontNoRender ==
    \A j \in Jobs : HoldsDir(j) => fontInitialized

\* The frame files in the working directory of the call.
FrameFiles(files) ==
    IF job[1].tempDir \in DOMAIN files
    THEN {f \in files[job[1].tempDir] : f.kind = "frame"}
    ELSE {}

\* The file the encoder's pattern frame_%06d.png names for the number n < 10^6.
Pattern06d(n) ==
    [kind |-> "frame",
     name |-> <<(n \div 100000) % 10, (n \div 10000) % 10, (n \div 1000) % 10,
                (n \div 100) % 10, (n \div 10) % 10, n % 10>>]

RECURSIVE SumFrames(_)
SumFrames(log) == IF log = <<>> THEN 0 ELSE log[1].frames + SumFrames(Tail(log))

\* The frames the running loop of generateFrames has saved.
LoopFrames(jr) ==
    IF jr.pc = "items" THEN jr.frame
    ELSE IF jr.pc \in {"intro", "conclusion"} THEN jr.k ELSE 0

\* The phases finished so far are the intro, then reveal sub-phases 0, 1, ... in
\* order, then the conclusion.
PhasesInOrder(log) ==
    \A p \in DOMAIN log :
        /\ (log[p].phase = "intro") <=> (p = 1)
        /\ log[p].phase = "item" => log[p].itemIndex = p - 2
        /\ log[p].phase = "conclusion" => p = Len(log)

\* C28: while generateFrames runs and after it has returned n, the frame files in
\* the working directory are exactly those the encoder's pattern names for
\* 0 .. frameIndex - 1; frameIndex is the sum of the frame counts of the finished
\* phases and of the running loop, the phases being the intro, the reveal
\* sub-phases in order, the conclusion; the returned n is frameIndex; and every
\* step that saves a frame writes the file numbered frameIndex, which was not there,
\* and adds one to frameIndex.
C28_FramesNumberedInOrder ==
    [][/\ InGenerateFrames'
          => /\ FrameFiles(fs') = {Pattern06d(n) : n \in 0..(job'[1].frameIndex - 1)}
             /\ job'[1].frameIndex = SumFrames(job'[1].phaseLog) + LoopFrames(job'[1])
             /\ PhasesInOrder(job'[1].phaseLog)
             /\ GenDone' => job'[1].frameCount = job'[1].frameIndex
       /\ (InGenerateFrames /\ InGenerateFrames'
           /\ (FrameFiles(fs') # FrameFiles(fs) \/ job'[1].frameIndex # job[1].frameIndex))
          => /\ job'[1].frameIndex = job[1].frameIndex + 1
             /\ Pattern06d(job[1].frameIndex) \notin FrameFiles(fs)
             /\ FrameFiles(fs') = FrameFiles(fs) \cup {Pattern06d(job[1].frameIndex)}]_vars

\* C28 witness: generateFrames has returned 225 after an intro, three reveal
\* sub-phases and a conclusion, and frame_000224.png is in the directory.
C28_Witness ==
    /\ GenDone
    /\ job[1].frameCount = 225
    /\ Len(job[1].phaseLog) = 5
    /\ Pattern06d(224) \in FrameFiles(fs)

\* C29: once processAudio has returned, segment n (counted from 0) has its clip
\* audio_section_n at index n of the clips and its duration at index n of the
\* durations (the declared one for a silent segment that declares one, the measured
\* one for an uploaded segment whose probe succeeded), the track is made of
\* exactly these clips in segment order, and it is the clip's own file when there
\* is one segment, final_audio otherwise. While processAudio runs the clips and
\* durations are those of the segments done.
C29_OneClipPerSegmentInOrder ==
    LET jr == job[1]
        segments == jr.request.audioSections
        done == IF InGenerateFrames THEN Len(segments) ELSE jr.i
    IN  /\ jr.pc \in {"writeTemp", "transcode", "unlink", "probe", "silence", "writeList",
                      "concat"} \/ InGenerateFrames
           => /\ Len(jr.audioFiles) = done /\ Len(jr.sectionDurations) = done
              /\ \A n \in 1..done :
                    /\ jr.audioFiles[n] = File("audio_section", n - 1)
                    /\ (~segments[n].audioBlob /\ ~segments[n].isTTS /\ segments[n].duration > 0)
                       => jr.sectionDurations[n] = segments[n].duration
                    /\ segments[n].audioBlob
                       => \E p \in DOMAIN jr.probed :
                             /\ jr.probed[p].section = n - 1
                             /\ ProbeFailed(jr.probed[p])
                                \/ jr.sectionDurations[n] = jr.probed[p].d.value
        /\ InGenerateFrames
           => /\ jr.track = [n \in 1..Len(segments) |-> File("audio_section", n - 1)]
              /\ jr.audioPath = IF Len(segments) = 1 THEN File("audio_section", 0)
                                                     ELSE File("final_audio", 0)

\* C29 witness: processAudio has returned the concatenation of five clips, the
\* second measured at 0.10 s.
C29_Witness ==
    /\ InGenerateFrames
    /\ Len(job[1].track) = 5
    /\ job[1].request.audioSections[2].audioBlob
    /\ job[1].sectionDurations[2] = 10
    /\ job[1].audioPath = File("final_audio", 0)

\* The segments are an intro, one item segment for each revealed item, a conclusion,
\* in this order, and each has an exact positive duration: silence of the length
\* asked for, or a clip whose probe gave its length.
AlignedNarration ==
    LET segments == job[1].request.audioSections
        m == Len(job[1].allItems)
    IN  /\ Len(segments) = m + 2
        /\ segments[1].type = "intro"
        /\ \A n \in 2..(m + 1) : segments[n].type = "item"
        /\ segments[m + 2].type = "conclusion"
        /\ \A n \in DOMAIN segments : job[1].sectionDurations[n] > 0
        /\ \A p \in DOMAIN job[1].probed : ~ProbeFailed(job[1].probed[p])

RECURSIVE SumTo(_, _)
SumTo(durations, n) == IF n = 0 THEN 0 ELSE durations[n] + SumTo(durations, n - 1)

RECURSIVE FloorSumTo(_, _)
FloorSumTo(durations, n) ==
    IF n = 0 THEN 0 ELSE (durations[n] * 30) \div 100 + FloorSumTo(durations, n - 1)

\* C30: when generateFrames has returned for an aligned narration with durations
\* d (hundredths of a second), phase k (counted from 1) starts at the frame whose
\* index is the sum over j < k of floor(d_j * 30 / 100); this frame's time is not
\* after the start of segment k in the track and less than k frame intervals
\* before it; and the frame count is at most 30 times the length of the track.
C30_PhasesStartWithTheirNarration ==
    (GenDone /\ AlignedNarration) =>
        LET d == job[1].sectionDurations
            log == job[1].phaseLog
        IN  /\ Len(log) = Len(d)
            /\ \A k \in DOMAIN log :
                  LET start == SumFrames(SubSeq(log, 1, k - 1))
                  IN  /\ start = FloorSumTo(d, k - 1)
                      /\ 100 * start <= 30 * SumTo(d, k - 1)
                      /\ 30 * SumTo(d, k - 1) - 100 * start < 100 * k
            /\ 100 * job[1].frameCount <= 30 * SumTo(d, Len(d))

\* C30 witness: an aligned narration of 0.33 s, 0.10 s, 0.10 s, 0.04 s, 0.05 s was
\* rendered as 9 + 3 + 3 + 1 + 1 frames, the conclusion starting at frame 16, while
\* its narration starts at 0.57 s (frame 17.1).
C30_Witness ==
    /\ GenDone /\ AlignedNarration
    /\ job[1].sectionDurations = <<33, 10, 10, 4, 5>>
    /\ job[1].frameCount = 17
    /\ SumFrames(SubSeq(job[1].phaseLog, 1, 4)) = 16

\* ======================================================================
\* Claims, checked under SpecStage (one call): the resting cells
\* ======================================================================

\* A conclusion frame is on the canvas.
ConclusionFrameDrawn == job[1].pc = "conclusion" /\ job[1].k > 0

ReqTiers == Req.rankingData.tiers

\* The cells the frame shows in row t, column n (both counted from 1).
CellsAt(t, n) ==
    {c \in DOMAIN job[1].scene.placed :
        /\ job[1].scene.placed[c].tierIndex = t - 1
        /\ job[1].scene.placed[c].indexInTier = n - 1}

\* The top left corner of the cell of row t, column n (both counted from 1).
CellX(n) == 290 + (n - 1) * 110

CellY(t) == 150 + (t - 1) * 140 + 10

\* C24: a conclusion frame shows no moving item and, for every tier and every item
\* of its list, exactly one cell: the item's, at rest in the row of the tier and the
\* column of the item's index in the list; it shows no other cell.
C24_ConclusionShowsCompleteTable ==
    ConclusionFrameDrawn =>
        /\ ~job[1].scene.moving.drawn
        /\ \A c \in DOMAIN job[1].scene.placed :
              \E t \in DOMAIN ReqTiers : \E n \in DOMAIN ReqTiers[t].items : c \in CellsAt(t, n)
        /\ \A t \in DOMAIN ReqTiers : \A n \in DOMAIN ReqTiers[t].items :
              /\ Cardinality(CellsAt(t, n)) = 1
              /\ \A c \in CellsAt(t, n) :
                    LET cell == job[1].scene.placed[c]
                    IN  /\ cell.id = ReqTiers[t].items[n].id
                        /\ IsAt(cell.x, CellX(n)) /\ IsAt(cell.y, CellY(t))
                        /\ ~cell.pushed /\ ~cell.shaken

\* C24 witness: a conclusion frame of a table of three items in one tier, after a
\* reveal that placed Y first and Z never.
C24_Witness ==
    /\ ConclusionFrameDrawn
    /\ Len(job[1].scene.placed) = 3
    /\ HasLog /\ Entries[1].itemId = Y /\ \A e \in DOMAIN Entries : Entries[e].itemId # Z
    /\ job[1].scene.placed[3].id = Z /\ IsAt(job[1].scene.placed[3].x, 510)

\* The reveal order holds no item twice.
RevealedOnce ==
    \A a, b \in DOMAIN job[1].allItems :
        a # b => job[1].allItems[a].id # job[1].allItems[b].id

\* C25: in a reveal frame, every placed item that is not being squeezed is drawn in
\* the cell of the final table: the row of the tier that lists it and the column of
\* its index in that list.
C25_PlacedAtRestingCell ==
    (RevealFrameDrawn /\ RevealedOnce) =>
        \A c \in DOMAIN job[1].scene.placed :
            LET cell == job[1].scene.placed[c]
            IN  ~cell.pushed =>
                  \A t \in DOMAIN ReqTiers : \A n \in DOMAIN ReqTiers[t].items :
                      ReqTiers[t].items[n].id = cell.id
                      => IsAt(cell.x, CellX(n)) /\ IsAt(cell.y, CellY(t))

\* The reveal frames of the current sub-phase are all drawn: frame counts them.
SubPhaseDrawn ==
    /\ job[1].pc = "items"
    /\ job[1].itemIndex < Len(job[1].allItems)
    /\ job[1].frame > 0
    /\ job[1].frame = itemFramesOf(job[1])

\* The moving item of the current sub-phase as its drawing function gives it at
\* progress = frame / itemFrames = 1.
MovingAtProgress1 ==
    revealScene(ReqTiers, job[1].allItems, job[1].itemIndex, job[1].frame,
                job[1].frame, itemDurationOfJob(job[1])).moving

\* C26: at progress 1 the moving item's square, in centre-stage mode as in direct
\* mode, has size 100 and its top left corner on the top left corner of the
\* item's cell in the final table.
C26_EndsOnTargetCell ==
    (SubPhaseDrawn /\ MovingAtProgress1.drawn) =>
        LET m == MovingAtProgress1
            \* fillRect(currentX - currentSize/2, ...) in centre-stage mode,
            \* fillRect(currentX, ...) in direct mode
            left2 == IF m.centerStage
                     THEN [n |-> 2 * m.currentX.n * m.currentSize.d - m.currentSize.n * m.currentX.d,
                           d |-> 2 * m.currentX.d * m.currentSize.d]
                     ELSE [n |-> 2 * m.currentX.n, d |-> 2 * m.currentX.d]
            top2 == IF m.centerStage
                    THEN [n |-> 2 * m.currentY.n * m.currentSize.d - m.currentSize.n * m.currentY.d,
                          d |-> 2 * m.currentY.d * m.currentSize.d]
                    ELSE [n |-> 2 * m.currentY.n, d |-> 2 * m.currentY.d]
        IN  /\ IsAt(m.currentSize, 100)
            /\ IsAt(left2, CellX(IncomingIndex + 1))
            /\ IsAt(top2, CellY(IncomingTier))

\* ======================================================================
\* Claims, checked under SpecNames (one call, tiers of the same name)
\* ======================================================================

\* The places <<t, n>> (counted from 1) where the tiers list item id.
HoldersOf(id) ==
    {tn \in UNION {{<<t, n>> : n \in DOMAIN ReqTiers[t].items} : t \in DOMAIN ReqTiers} :
        ReqTiers[tn[1]].items[tn[2]].id = id}

\* C27: in a reveal frame the moving item is bound for the cell of the tier that
\* lists it, at its index in that list, never left of the first column; and every
\* placed item is drawn in the row of the tier that lists it.
C27_RowOfTheListingTier ==
    RevealFrameDrawn =>
        /\ job[1].scene.moving.drawn
           => /\ \A tn \in HoldersOf(Incoming.id) :
                    /\ job[1].scene.moving.targetX = CellX(tn[2])
                    /\ job[1].scene.moving.targetY = CellY(tn[1])
              /\ job[1].scene.moving.targetX >= CellX(1)
        /\ \A c \in DOMAIN job[1].scene.placed :
              \A tn \in HoldersOf(job[1].scene.placed[c].id) :
                  IsAt(job[1].scene.placed[c].y, CellY(tn[1]))

\* ------------------------------------------------------------------------
\* Claims, checked under SpecImages (one call, image references of every form)

PrefixedForm(s) ==
    \/ startsWith(s, "data:")
    \/ startsWith(s, "/api/temp-image/")
    \/ startsWith(s, "http://")
    \/ startsWith(s, "https://")

\* C21 as stated: only a reference that is an inline payload (data:), a staged
\* file or a remote URL is ever decoded, and a reference of another form fails
\* with the unsupported-image-source error.
C21_OnlyThreeFormsResolved ==
    /\ \A s \in DOMAIN imageCache : PrefixedForm(s)
    /\ \A e \in job[1].loadErrors :
          ~PrefixedForm(e.src) => e.error = "Unsupported image source"

\* The form of each reference of ImageSources when the forms are tried in the
\* order inline, staged, remote, bare base64, existing file path.
FormInOrder ==
    (Data1 :> "inline") @@ (Staged1 :> "staged") @@ (Remote1 :> "remote")
    @@ (Bare1 :> "base64") @@ (PathPlain :> "base64") @@ (PathDotted :> "file")
    @@ (PathMissing :> "unsupported") @@ (Blob1 :> "unsupported")

\* C21, amended: a reference is resolved in the order inline payload, staged
\* file, remote fetch, bare base64 payload, existing local file path: every
\* decoded image was loaded as the first of these forms its reference has, and
\* a reference of none of them, and only such a reference, fails with the
\* unsupported-image-source error and is never decoded.
C21_ResolvedInOrder ==
    /\ \A s \in DOMAIN imageCache :
          /\ imageCache[s].route = FormInOrder[s]
          /\ FormInOrder[s] # "unsupported"
    /\ \A img \in job[1].canvas :
          img.route = FormInOrder[img.src] /\ FormInOrder[img.src] # "unsupported"
    /\ \A e \in job[1].loadErrors :
          (e.error = "Unsupported image source") <=> (FormInOrder[e.src] = "unsupported")

\* C21 witness: a frame was drawn for which the path /tmp/x of an existing file
\* was decoded as base64 text and the blob: URL failed as unsupported.
C21_Witness ==
    /\ PathPlain \in DOMAIN imageCache
    /\ imageCache[PathPlain].route = "base64"
    /\ [src |-> Blob1, error |-> "Unsupported image source"] \in job[1].loadErrors
    /\ job[1].pc = "conclusion"

\* The ranking data with the image of every item taken away.
WithoutImages(rankingData) ==
    [tiers |-> [t \in DOMAIN rankingData.tiers |->
                   Tier(rankingData.tiers[t].id, rankingData.tiers[t].name,
                        [n \in DOMAIN rankingData.tiers[t].items |->
                            Item(rankingData.tiers[t].items[n].id, NoImage)])],
     unrankedItems |-> [n \in DOMAIN rankingData.unrankedItems |->
                           Item(rankingData.unrankedItems[n].id, NoImage)],
     dragHistory |-> rankingData.dragHistory]

\* The phases of a log: what each shows and for how many frames.
PlanOfLog(log) ==
    [p \in DOMAIN log |-> <<log[p].phase, log[p].id, log[p].tierName, log[p].frames>>]

\* The phases of a render of `rankingData` with the section durations `sections`.
PlanOf(sections, rankingData) ==
    LET all == allItemsOf(rankingData)
    IN  <<<<"intro", "", "", Frames(phaseDuration(sections, "intro"))>>>>
        \o [i \in 1..Len(all) |->
               <<"item", all[i].id, all[i].tierName,
                 Frames(itemDurationOf(itemSectionsOf(sections), i - 1))>>]
        \o <<<<"conclusion", "", "", Frames(phaseDuration(sections, "conclusion"))>>>>

RECURSIVE SumPlan(_)
SumPlan(plan) == IF plan = <<>> THEN 0 ELSE plan[1][4] + SumPlan(Tail(plan))

\* The items the frame just drawn shows: all of them in a conclusion frame, the
\* revealed ones and the moving one in a reveal frame.
ItemsShown(jr) ==
    IF jr.pc = "conclusion"
    THEN UNION {{jr.request.rankingData.tiers[t].items[n] :
                    n \in DOMAIN jr.request.rankingData.tiers[t].items} :
                   t \in DOMAIN jr.request.rankingData.tiers}
    ELSE {Item(jr.allItems[m].id, jr.allItems[m].image) : m \in 1..(jr.itemIndex + 1)}

FailedSources(jr) == {e.src : e \in jr.loadErrors}

\* C22: every step that draws a reveal or conclusion frame in which image loads
\* failed leaves none of the failed references in the cache and none on the
\* canvas, draws every shown item of such a reference in the default style, and
\* writes the frame file of the current number; and when generateFrames has
\* returned, its phases and frame count are those of the same ranking data
\* without images.
C22_LoadFailureDrawsPlaceholder ==
    [][/\ (job'[1].frameIndex = job[1].frameIndex + 1 /\ job'[1].pc \in {"items", "conclusion"})
          => /\ FailedSources(job'[1]) \cap DOMAIN imageCache' = {}
             /\ \A img \in job'[1].canvas : img.src \notin FailedSources(job'[1])
             /\ \A it \in ItemsShown(job'[1]) :
                   it.image \in FailedSources(job'[1]) => it.id \in job'[1].defaultStyle
             /\ \A it \in ItemsShown(job'[1]) :
                   it.id \in job'[1].defaultStyle
                      => it.image = NoImage \/ it.image \in FailedSources(job'[1])
                         \/ it.image \notin DOMAIN imageCache'
             /\ Pattern06d(job[1].frameIndex) \in FrameFiles(fs')
       /\ GenDone'
          => /\ PlanOfLog(job'[1].phaseLog)
                = PlanOf(job'[1].sections, WithoutImages(job'[1].request.rankingData))
             /\ job'[1].frameCount = SumPlan(PlanOfLog(job'[1].phaseLog))]_vars

\* C22 witness: generateFrames has returned after a last frame in which the load
\* of X's image failed to decode and X was drawn in the default style, and no
\* image is cached for that reference.
C22_Witness ==
    /\ job[1].pc = "encode"
    /\ \E e \in job[1].loadErrors : e.error = "load failed"
    /\ X \in job[1].defaultStyle
    /\ job[1].request.rankingData.tiers[1].items[1].image \in FailedSources(job[1])
    /\ job[1].frameCount = 8

====
